---- MODULE Spec2Model ----
(***************************************************************************)
(* Cender: the dispatch pipeline of backend/services/email_service.py      *)
(* (EmailService.send_emails_stream), with the Gmail credential handling   *)
(* of backend/gmail_service.py and the tables of backend/database.py.      *)
(*                                                                         *)
(* send_emails_stream is a generator.  Its body is cut at the points where *)
(* it talks to a collaborator: validation (lines 49-82), the read of the   *)
(* already-sent keys (84-100), authentication (102-112), one loop          *)
(* iteration per recipient (115-214) and the end of the loop.              *)
(***************************************************************************)
EXTENDS Integers, Sequences, FiniteSets, TLC

(***************************************************************************)
(* Bounds of the model.                                                    *)
(***************************************************************************)
MaxRuns == 2        \* dispatch runs started in one behaviour
MaxReqLen == 2      \* length of the recipient_ids list of a request
MaxInputLen == 5    \* length (in lexical tokens) of a pasted authorization input
MaxTemplateLen == 3 \* length (in lexical tokens) of a template given to create_message
LongWordLen == 60   \* letters of the long word a template may contain

(***************************************************************************)
(* Universes.                                                              *)
(***************************************************************************)
UserIds == {1, 2}                 \* user ids a request may name
RecipientIds == {1, 2, 3}         \* recipient ids a request may name
None == 0                         \* Python None for an integer column

\* "truncated": the file has been opened for writing and not yet written
TokenStates == {"none", "valid", "valid_norefresh", "expired", "expired_norefresh",
                "truncated"}

VARIABLES
    users,              \* ids of the rows of table users
    recipients,         \* table recipients: id -> email (email is unique)
    user_recipients,    \* association table: set of <<user_id, recipient_id>>
    email_logs,         \* table email_logs, in insertion (id) order
    credentials_files,  \* user_id -> BOOLEAN: user_<id>_credentials.json exists
    resume_files,       \* user_id -> BOOLEAN: a PDF exists in the user's data dir
    token_files,        \* user_id -> state of user_<id>_token.json
    store_faulty,       \* whether commits of the session may raise
    run,                \* the dispatch generator (one at a time)
    runs_started,       \* number of generators created so far
    delivered,          \* <<user_id, email>> -> successful Transport sends so far
    templates,          \* table templates: user_id -> content of the row, or NoTemplate
    run2,               \* a second dispatch generator, of another request
    call                \* the request to the credential or log endpoints in progress

vars == <<users, recipients, user_recipients, email_logs, credentials_files,
          resume_files, token_files, store_faulty, run, runs_started, delivered,
          templates, run2, call>>

envvars == <<users, recipients, user_recipients, store_faulty>>
filevars == <<credentials_files, resume_files, token_files>>
sidevars == <<templates, run2, call>>

(***************************************************************************)
(* Helpers on sequences.                                                   *)
(***************************************************************************)
Range(s) == {s[k] : k \in 1..Len(s)}

SeqsUpTo(S, n) == UNION {[1..k -> S] : k \in 0..n}

RECURSIVE SortedSeq(_)
\* The elements of a finite set of integers in ascending order.
SortedSeq(S) ==
    IF S = {} THEN <<>>
    ELSE LET m == CHOOSE x \in S : \A y \in S : x <= y
         IN  <<m>> \o SortedSeq(S \ {m})

(***************************************************************************)
(* database.py                                                             *)
(***************************************************************************)
EmailStatus == {"sent", "failed", "skipped"}

EmailLog(user_id, recipient_id, recipient_email, status) ==
    [user_id |-> user_id, recipient_id |-> recipient_id,
     recipient_email |-> recipient_email, status |-> status]

(***************************************************************************)
(* Templates.  A template content is modelled by the set of the {name}     *)
(* placeholders that occur in it.  services/template_service.py and the    *)
(* tests read and write a subject beside the content; the dispatch run     *)
(* takes its subject from the request and uses the content only.           *)
(***************************************************************************)
\* the keyword arguments of template.format(...) in create_message
FormatKeys == {"salutation", "company"}

VALID_PLACEHOLDERS == {"salutation", "company", "company_name"}

\* contents a client may post
TemplateContents == {{"salutation", "company"}, {"salutation", "company_name"},
                     {"salutation", "name"}}

NoTemplate == [exists |-> FALSE, content |-> {}]

\* re.findall(r"\{(\w+)\}", content) filtered by `not in VALID_PLACEHOLDERS`
validate_template_placeholders(content) == content \ VALID_PLACEHOLDERS

\* the default content of get_or_default: "Bonjour {salutation}, ... {company} ..."
DefaultContent == {"salutation", "company"}

\* TemplateService.get_or_default(user_id)["content"]
GetOrDefault(user_id) ==
    IF templates[user_id].exists THEN templates[user_id].content ELSE DefaultContent

\* create_message up to the return: "" when the message is built, otherwise
\* what raised.  template.format raises KeyError for a placeholder that is
\* not among its keyword arguments; open(resume_path, "rb") raises when the
\* file that validation saw can no longer be read.
BuildResults(content) ==
    IF content \ FormatKeys # {} THEN {"placeholder"} ELSE {"", "attachment"}

(***************************************************************************)
(* The events the generator yields (json.dumps of a dict).                 *)
(***************************************************************************)
RecipientEvent(recipient_id, email, status) ==
    [recipient_id |-> recipient_id, email |-> email, status |-> status]

ErrorEvent(message) ==
    [recipient_id |-> None, email |-> "", status |-> "error: " \o message]

IsErrorEvent(e) == e.recipient_id = None

(***************************************************************************)
(* A request to one of the other endpoints, from its arrival to its reply. *)
(***************************************************************************)
NoCall == [op |-> "none", pc |-> "none"]

NoneStr == "<None>"               \* Python None where a str is expected

(***************************************************************************)
(* GmailAuthService.extract_auth_code.  The pasted input is a sequence of  *)
(* lexical tokens: a blank, a scheme prefix, "?", "&", and two query       *)
(* fields "code=a" and "code=b" whose values are "a" and "b".              *)
(***************************************************************************)
Schemes == {"http://", "https://"}
CodeFields == {"code=a", "code=b"}
InputTokens == {" ", "?", "&"} \cup Schemes \cup CodeFields

\* the text of a field "code=<value>" after "code="
FieldValue(tok) == IF tok = "code=a" THEN "a" ELSE "b"

RECURSIVE LStrip(_)
LStrip(s) == IF s # <<>> /\ Head(s) = " " THEN LStrip(Tail(s)) ELSE s

RECURSIVE RStrip(_)
RStrip(s) == IF s # <<>> /\ s[Len(s)] = " " THEN RStrip(SubSeq(s, 1, Len(s) - 1)) ELSE s

\* Variant: the input is used as pasted.
StripNothing(s) == s

\* str.strip()
Strip(s) == RStrip(LStrip(s))

\* position of the first occurrence of tok in s, or 0
IndexOf(s, tok) ==
    IF \E k \in 1..Len(s) : s[k] = tok
    THEN CHOOSE k \in 1..Len(s) : s[k] = tok /\ \A j \in 1..(k - 1) : s[j] # tok
    ELSE 0

\* urlparse(s).query: what follows the first "?"
UrlQuery(s) == IF IndexOf(s, "?") = 0 THEN <<>> ELSE SubSeq(s, IndexOf(s, "?") + 1, Len(s))

\* q.split("&")
RECURSIVE SplitAmp(_)
SplitAmp(q) ==
    IF IndexOf(q, "&") = 0 THEN <<q>>
    ELSE <<SubSeq(q, 1, IndexOf(q, "&") - 1)>>
            \o SplitAmp(SubSeq(q, IndexOf(q, "&") + 1, Len(q)))

\* parse_qs(query)["code"]: the values of the fields named code, in order.
\* A field is named code when its text begins with "code="; its value is
\* the rest of the field.
CodeValues(q) ==
    LET fields == SelectSeq(SplitAmp(q), LAMBDA f : f # <<>> /\ Head(f) \in CodeFields)
    IN  [k \in 1..Len(fields) |-> <<FieldValue(Head(fields[k]))>> \o Tail(fields[k])]

\* Variant: the last value of a repeated code parameter is taken.
PickCodeLast(values) == values[Len(values)]

\* query_params["code"][0]
PickCode(values) == values[1]

\* extract_auth_code(input_str) -> (auth_code, error_message)
extract_auth_code(input_str) ==
    LET stripped == Strip(input_str)
    IN  IF stripped = <<>>
        THEN [code |-> <<>>, error |-> "No input provided"]
        ELSE IF Head(stripped) \in Schemes
        THEN IF CodeValues(UrlQuery(stripped)) # <<>>
             THEN [code |-> PickCode(CodeValues(UrlQuery(stripped))), error |-> NoneStr]
             ELSE [code |-> <<>>,
                   error |-> "URL does not contain an authorization code"]
        ELSE [code |-> stripped, error |-> NoneStr]

(***************************************************************************)
(* The generator.                                                          *)
(***************************************************************************)
IdleRun ==
    [pc |-> "idle", user_id |-> None, recipient_ids |-> <<>>, dry_run |-> FALSE,
     recipients |-> <<>>, sent_recipient_ids |-> {}, sent_emails |-> {},
     service |-> FALSE, i |-> 1,
     events |-> <<>>, calls |-> <<>>, auth |-> <<>>, log_start |-> <<>>,
     template |-> {}, token_seen |-> "", build_errors |-> <<>>, refreshes |-> 0]

Terminal == {"completed", "aborted", "raised"}


(***************************************************************************)
(* Pure decisions of send_emails_stream.                                   *)
(***************************************************************************)
\* user_service.get_by_id: the user row exists (otherwise UserNotFoundError).
UserExists(user_id) == user_id \in users

\* user.recipients: the ids linked to the user.
UserRecipientIds(user_id) == {r \in DOMAIN recipients : <<user_id, r>> \in user_recipients}

\* Variant: the ids are checked against table recipients, not against the links.
InvalidIdsUnknownOnly(user_id, recipient_ids) == Range(recipient_ids) \ DOMAIN recipients

\* set(recipient_ids) - user_recipient_ids
InvalidIds(user_id, recipient_ids) == Range(recipient_ids) \ UserRecipientIds(user_id)

\* Variant: the loop walks the request list itself, one row per list entry.
QueryRecipientsPerEntry(recipient_ids) ==
    SelectSeq(recipient_ids, LAMBDA r : r \in DOMAIN recipients)

\* db.query(Recipient).filter(Recipient.id.in_(recipient_ids)).all(): one row
\* per matching id, in primary-key order (the query has no ORDER BY; the
\* SQLite store of DATABASE_URL walks the rowid index).
QueryRecipients(recipient_ids) == SortedSeq(Range(recipient_ids) \cap DOMAIN recipients)

\* Variant: the ids of the user's logs of any status.
SentRecipientIdsAnyStatus(logs, user_id) ==
    {l.recipient_id : l \in {x \in Range(logs) : /\ x.user_id = user_id
                                                  /\ x.recipient_id # None}}

\* Variant: the ids of the SENT logs of every user.
SentRecipientIdsAnyOwner(logs, user_id) ==
    {l.recipient_id : l \in {x \in Range(logs) : /\ x.status = "sent"
                                                  /\ x.recipient_id # None}}

\* ids of the user's SENT logs that still reference a recipient
SentRecipientIds(logs, user_id) ==
    {l.recipient_id : l \in {x \in Range(logs) : /\ x.user_id = user_id
                                                  /\ x.status = "sent"
                                                  /\ x.recipient_id # None}}

\* Variant: the addresses of the SENT logs of every user.
SentEmailsAnyOwner(logs, user_id) ==
    {l.recipient_email : l \in {x \in Range(logs) : x.status = "sent"}}

\* addresses of the user's SENT logs
SentEmails(logs, user_id) ==
    {l.recipient_email : l \in {x \in Range(logs) : /\ x.user_id = user_id
                                                     /\ x.status = "sent"}}

\* Variant: the already-sent check looks at the ids only.
AlreadySentByIdOnly(rn, recipient_id, email) == recipient_id \in rn.sent_recipient_ids

\* Variant: the already-sent check is missing.
AlreadySentNever(rn, recipient_id, email) == FALSE

\* if recipient_id in sent_recipient_ids or email in sent_emails
AlreadySent(rn, recipient_id, email) ==
    recipient_id \in rn.sent_recipient_ids \/ email \in rn.sent_emails

\* Variant: the except block logs whatever the mode.
WritesFailedLogAlways(dry_run) == TRUE

\* if not dry_run: (the guard of the FAILED log in the except block)
WritesFailedLog(dry_run) == ~dry_run

\* db.commit() returns, or raises when the store is failing
CommitOutcomes(faulty) == IF faulty THEN {TRUE, FALSE} ELSE {TRUE}

(***************************************************************************)
(* gmail_service.authenticate_gmail: the possible results for a token file *)
(* in a given state, each with the state of the file afterwards.           *)
(***************************************************************************)
\* Variant: the refreshed credentials are used but never written back.
AuthResultsNotPersisted(token) ==
    CASE token = "none" ->
            {[ok |-> FALSE, token |-> token, error |-> "no_token", seen |-> token,
              refreshes |-> 0]}
      [] token \in {"valid", "valid_norefresh"} ->
            {[ok |-> TRUE, token |-> token, error |-> "", seen |-> token,
              refreshes |-> 0]}
      [] token = "expired" ->
            {[ok |-> TRUE, token |-> token, error |-> "", seen |-> token,
              refreshes |-> 1],
             [ok |-> FALSE, token |-> token, error |-> "refresh_failed", seen |-> token,
              refreshes |-> 1]}
      [] OTHER ->
            {[ok |-> FALSE, token |-> token, error |-> "unrecoverable", seen |-> token,
              refreshes |-> 0]}

\* Variant: without a token file the installed-app flow is run and its
\* credentials are stored.
AuthResultsInteractive(token) ==
    CASE token = "none" ->
            {[ok |-> TRUE, token |-> "valid", error |-> "", seen |-> token,
              refreshes |-> 0]}
      [] token \in {"valid", "valid_norefresh"} ->
            {[ok |-> TRUE, token |-> token, error |-> "", seen |-> token,
              refreshes |-> 0]}
      [] token = "expired" ->
            {[ok |-> TRUE, token |-> "valid", error |-> "", seen |-> token,
              refreshes |-> 1],
             [ok |-> FALSE, token |-> token, error |-> "refresh_failed", seen |-> token,
              refreshes |-> 1]}
      [] OTHER ->
            {[ok |-> FALSE, token |-> token, error |-> "unrecoverable", seen |-> token,
              refreshes |-> 0]}

\* Variant: the token file is opened for writing before the refresh call.
AuthResultsWritesFirst(token) ==
    CASE token = "none" ->
            {[ok |-> FALSE, token |-> token, error |-> "no_token", seen |-> token,
              refreshes |-> 0]}
      [] token \in {"valid", "valid_norefresh"} ->
            {[ok |-> TRUE, token |-> token, error |-> "", seen |-> token,
              refreshes |-> 0]}
      [] token = "expired" ->
            {[ok |-> TRUE, token |-> "valid", error |-> "", seen |-> token,
              refreshes |-> 1],
             [ok |-> FALSE, token |-> "truncated", error |-> "refresh_failed",
              seen |-> token, refreshes |-> 1]}
      [] token = "truncated" ->
            {[ok |-> FALSE, token |-> token, error |-> "unreadable", seen |-> token,
              refreshes |-> 0]}
      [] OTHER ->
            {[ok |-> FALSE, token |-> token, error |-> "unrecoverable", seen |-> token,
              refreshes |-> 0]}

AuthResults(token) ==
    CASE token = "none" ->
            {[ok |-> FALSE, token |-> token, error |-> "no_token", seen |-> token,
              refreshes |-> 0]}
      [] token \in {"valid", "valid_norefresh"} ->
            {[ok |-> TRUE, token |-> token, error |-> "", seen |-> token,
              refreshes |-> 0]}
      [] token = "expired" ->
            {[ok |-> TRUE, token |-> "valid", error |-> "", seen |-> token,
              refreshes |-> 1],
             [ok |-> FALSE, token |-> token, error |-> "refresh_failed", seen |-> token,
              refreshes |-> 1]}
      [] token = "truncated" ->
            {[ok |-> FALSE, token |-> token, error |-> "unreadable", seen |-> token,
              refreshes |-> 0]}
      [] OTHER ->
            {[ok |-> FALSE, token |-> token, error |-> "unrecoverable", seen |-> token,
              refreshes |-> 0]}

(***************************************************************************)
(* Steps of the generator on its local state rn.                           *)
(***************************************************************************)
\* yield json.dumps({"error": ...}); return
Abort(rn, message) ==
    [rn EXCEPT !.pc = "aborted", !.events = Append(@, ErrorEvent(message))]

\* an exception leaves the generator: the stream ends without a yield
Raise(rn) == [rn EXCEPT !.pc = "raised"]

\* yield of a per-recipient event; the for loop then takes the next recipient
Yield(rn, e) == [rn EXCEPT !.events = Append(@, e), !.i = @ + 1]

\* Variant: after a failure the loop takes the same recipient again.
YieldFailedRetries(rn, e) == [rn EXCEPT !.events = Append(@, e)]

\* Variant: the except block ends the run after reporting the failure.
YieldFailedThenStop(rn, e) == [rn EXCEPT !.events = Append(@, e), !.pc = "aborted"]

\* the yield that ends the except block (lines 207-214)
YieldFailed(rn, e) == Yield(rn, e)

\* Variant: the except block keeps one FAILED record per recipient: it
\* replaces the recipient's earlier FAILED records by the new one.
HandlerResultsUpsert(rn, logs, dlv, faulty, recipient_id, email) ==
    LET kept == SelectSeq(logs, LAMBDA l : ~(/\ l.user_id = rn.user_id
                                            /\ l.recipient_id = recipient_id
                                            /\ l.status = "failed"))
    IN  IF WritesFailedLog(rn.dry_run)
        THEN {IF c
              THEN [run |-> YieldFailed(rn, RecipientEvent(recipient_id, email, "failed")),
                    logs |-> Append(kept, EmailLog(rn.user_id, recipient_id, email, "failed")),
                    delivered |-> dlv]
              ELSE [run |-> Raise(rn), logs |-> logs, delivered |-> dlv]
              : c \in CommitOutcomes(faulty)}
        ELSE {[run |-> YieldFailed(rn, RecipientEvent(recipient_id, email, "failed")),
               logs |-> logs, delivered |-> dlv]}

\* The except block of one iteration (lines 190-214).
HandlerResults(rn, logs, dlv, faulty, recipient_id, email) ==
    IF WritesFailedLog(rn.dry_run)
    THEN {IF c
          THEN [run |-> YieldFailed(rn, RecipientEvent(recipient_id, email, "failed")),
                logs |-> Append(logs, EmailLog(rn.user_id, recipient_id, email, "failed")),
                delivered |-> dlv]
          ELSE [run |-> Raise(rn), logs |-> logs, delivered |-> dlv]
          : c \in CommitOutcomes(faulty)}
    ELSE {[run |-> YieldFailed(rn, RecipientEvent(recipient_id, email, "failed")),
           logs |-> logs, delivered |-> dlv]}

\* Variant: a successful send is reported at once; its record is not yet
\* written when the generator is suspended.
SendResultsReportsFirst(rn, logs, dlv, faulty, recipient_id, email) ==
    UNION {
      LET called == [rn EXCEPT !.calls = Append(@, [recipient_id |-> recipient_id,
                                                    ok |-> send_ok])]
          key == <<rn.user_id, email>>
      IN  IF ~send_ok
          THEN HandlerResults(called, logs, dlv, faulty, recipient_id, email)
          ELSE {[run |-> Yield(called, RecipientEvent(recipient_id, email, "sent")),
                 logs |-> logs,
                 delivered |-> [dlv EXCEPT ![key] = @ + 1]]}
      : send_ok \in BOOLEAN}

\* The else branch of `if dry_run` (lines 164-188): send, log, yield.
SendResults(rn, logs, dlv, faulty, recipient_id, email) ==
    UNION {
      LET called == [rn EXCEPT !.calls = Append(@, [recipient_id |-> recipient_id,
                                                    ok |-> send_ok])]
          key == <<rn.user_id, email>>
          dlv2 == [dlv EXCEPT ![key] = @ + 1]
      IN  IF ~send_ok
          THEN HandlerResults(called, logs, dlv, faulty, recipient_id, email)
          ELSE UNION {
                 IF c
                 THEN {[run |-> Yield(called, RecipientEvent(recipient_id, email, "sent")),
                        logs |-> Append(logs, EmailLog(rn.user_id, recipient_id, email, "sent")),
                        delivered |-> dlv2]}
                 ELSE HandlerResults(called, logs, dlv2, faulty, recipient_id, email)
                 : c \in CommitOutcomes(faulty)}
      : send_ok \in BOOLEAN}

\* Variant: a skip is written to the log as a SKIPPED record.
IterationResultsLogsSkips(rn, logs, dlv, faulty) ==
    LET recipient_id == rn.recipients[rn.i]
        email == recipients[recipient_id]
    IN  IF AlreadySent(rn, recipient_id, email)
        THEN {[run |-> Yield(rn, RecipientEvent(recipient_id, email, "skipped")),
               logs |-> Append(logs, EmailLog(rn.user_id, recipient_id, email, "skipped")),
               delivered |-> dlv]}
        ELSE UNION {
               IF build # ""
               THEN HandlerResults(
                      [rn EXCEPT !.build_errors =
                                    Append(@, [recipient_id |-> recipient_id,
                                               error |-> build])],
                      logs, dlv, faulty, recipient_id, email)
               ELSE IF rn.dry_run
               THEN {[run |-> Yield(rn, RecipientEvent(recipient_id, email, "dry_run")),
                      logs |-> logs, delivered |-> dlv]}
               ELSE SendResults(rn, logs, dlv, faulty, recipient_id, email)
               : build \in BuildResults(rn.template)}

\* One iteration of the for loop (lines 115-214) for recipient rn.recipients[rn.i].
IterationResults(rn, logs, dlv, faulty) ==
    LET recipient_id == rn.recipients[rn.i]
        email == recipients[recipient_id]
    IN  IF AlreadySent(rn, recipient_id, email)
        THEN {[run |-> Yield(rn, RecipientEvent(recipient_id, email, "skipped")),
               logs |-> logs, delivered |-> dlv]}
        ELSE UNION {
               IF build # ""
               THEN HandlerResults(
                      [rn EXCEPT !.build_errors =
                                    Append(@, [recipient_id |-> recipient_id,
                                               error |-> build])],
                      logs, dlv, faulty, recipient_id, email)
               ELSE IF rn.dry_run
               THEN {[run |-> Yield(rn, RecipientEvent(recipient_id, email, "dry_run")),
                      logs |-> logs, delivered |-> dlv]}
               ELSE SendResults(rn, logs, dlv, faulty, recipient_id, email)
               : build \in BuildResults(rn.template)}


(***************************************************************************)
(* Initial state: one account owner (user 1, user 2 was never created),    *)
(* three recipients of which 1 and 2 are linked to the owner, an empty     *)
(* log, nothing uploaded yet.                                              *)
(***************************************************************************)
InitData ==
    /\ users = {1}
    /\ recipients = (1 :> "a") @@ (2 :> "b") @@ (3 :> "c")
    /\ user_recipients = {<<1, 1>>, <<1, 2>>}
    /\ email_logs = <<>>
    /\ credentials_files = [u \in UserIds |-> FALSE]
    /\ resume_files = [u \in UserIds |-> FALSE]
    /\ token_files = [u \in UserIds |-> "none"]
    /\ run = IdleRun
    /\ runs_started = 0
    /\ delivered = [k \in UserIds \X {"a", "b", "c"} |-> 0]
    /\ templates = [u \in UserIds |-> NoTemplate]
    /\ run2 = IdleRun
    /\ call = NoCall

Init == InitData /\ store_faulty = FALSE

InitFaulty == InitData /\ store_faulty = TRUE

(***************************************************************************)
(* Operations on the owner's files, between runs.                          *)
(***************************************************************************)
\* POST /users/{id}/credentials -> GmailAuthService.save_credentials
UploadCredentials(u) ==
    /\ run.pc = "idle"
    /\ UserExists(u)
    /\ ~credentials_files[u]
    /\ credentials_files' = [credentials_files EXCEPT ![u] = TRUE]
    /\ UNCHANGED <<envvars, sidevars, email_logs, resume_files, token_files, run,
                   runs_started, delivered>>

\* POST /users/{id}/resume -> GmailAuthService.save_resume
UploadResume(u) ==
    /\ run.pc = "idle"
    /\ UserExists(u)
    /\ ~resume_files[u]
    /\ resume_files' = [resume_files EXCEPT ![u] = TRUE]
    /\ UNCHANGED <<envvars, sidevars, email_logs, credentials_files, token_files, run,
                   runs_started, delivered>>

\* GmailAuthService.complete_auth with a code the provider accepts:
\* complete_authorization writes the token file.  The token response may or
\* may not carry a refresh token.
CompleteAuthorization(u) ==
    /\ run.pc = "idle"
    /\ UserExists(u)
    /\ credentials_files[u]
    /\ \E t \in {"valid", "valid_norefresh"} :
          /\ token_files[u] # t
          /\ token_files' = [token_files EXCEPT ![u] = t]
    /\ UNCHANGED <<envvars, sidevars, email_logs, credentials_files, resume_files, run,
                   runs_started, delivered>>

\* Time passes beyond the expiry of the stored access token.
TokenExpires(u) ==
    /\ run.pc = "idle"
    /\ token_files[u] \in {"valid", "valid_norefresh"}
    /\ token_files' = [token_files EXCEPT
                         ![u] = IF @ = "valid" THEN "expired" ELSE "expired_norefresh"]
    /\ UNCHANGED <<envvars, sidevars, email_logs, credentials_files, resume_files, run,
                   runs_started, delivered>>

\* POST/PUT /users/{id}/template -> TemplateService.create_or_update.  A
\* content with a placeholder outside VALID_PLACEHOLDERS raises
\* ValidationError before the table is touched.
SaveTemplate(u, content) ==
    /\ run.pc = "idle"
    /\ UserExists(u)
    /\ validate_template_placeholders(content) = {}
    /\ templates[u] # [exists |-> TRUE, content |-> content]
    /\ templates' = [templates EXCEPT ![u] = [exists |-> TRUE, content |-> content]]
    /\ UNCHANGED <<envvars, filevars, email_logs, run, runs_started, delivered,
                   run2, call>>

(***************************************************************************)
(* The Gmail endpoints of api/routers/gmail.py.  Each is one request: it   *)
(* arrives when no other such request is in progress, and Return hands its *)
(* reply, recorded in call, to the client.                                 *)
(***************************************************************************)
\* POST /users/{id}/gmail-auth-url -> GmailAuthService.get_auth_url
GetAuthUrlResults(has_credentials) ==
    IF ~has_credentials
    THEN {[url |-> NoneStr, error |-> "Credentials file not uploaded"]}
    ELSE {[url |-> "auth_url", error |-> NoneStr],
          [url |-> NoneStr, error |-> "Failed to generate auth URL"]}

GetAuthUrl(u) ==
    /\ call = NoCall
    /\ UserExists(u)
    /\ \E res \in GetAuthUrlResults(credentials_files[u]) :
          call' = [op |-> "auth_url", pc |-> "done", user_id |-> u,
                   url |-> res.url, error |-> res.error,
                   token_before |-> token_files[u]]
    /\ UNCHANGED <<envvars, filevars, email_logs, run, runs_started, delivered,
                   templates, run2>>

\* gmail_service.complete_authorization: flow.fetch_token raises, or the
\* token file is written.  The token response may or may not carry a
\* refresh token.
ExchangeResults(token) ==
    {[ok |-> FALSE, token |-> token], [ok |-> TRUE, token |-> "valid"],
     [ok |-> TRUE, token |-> "valid_norefresh"]}

\* Variant: the token file is opened for writing before the code is exchanged.
CompleteAuthResultsOpensFirst(has_credentials, auth_input, token) ==
    LET ext == extract_auth_code(auth_input)
    IN  IF ~has_credentials \/ ext.error # NoneStr
        THEN {[ok |-> FALSE, code |-> <<>>, error |-> "rejected",
               exchanged |-> FALSE, token |-> token]}
        ELSE {[ok |-> x.ok, code |-> ext.code,
               error |-> IF x.ok THEN NoneStr ELSE "Authorization failed",
               exchanged |-> TRUE,
               token |-> IF x.ok THEN x.token ELSE "truncated"]
              : x \in ExchangeResults(token)}

\* GmailAuthService.complete_auth(auth_input) -> (success, message), with the
\* token file afterwards
CompleteAuthResults(has_credentials, auth_input, token) ==
    LET ext == extract_auth_code(auth_input)
    IN  IF ~has_credentials
        THEN {[ok |-> FALSE, code |-> <<>>, error |-> "Credentials file not uploaded",
               exchanged |-> FALSE, token |-> token]}
        ELSE IF ext.error # NoneStr
        THEN {[ok |-> FALSE, code |-> <<>>, error |-> ext.error,
               exchanged |-> FALSE, token |-> token]}
        ELSE {[ok |-> x.ok, code |-> ext.code,
               error |-> IF x.ok THEN NoneStr ELSE "Authorization failed",
               exchanged |-> TRUE, token |-> x.token]
              : x \in ExchangeResults(token)}

AuthInputs == SeqsUpTo(InputTokens, MaxInputLen)

\* POST /users/{id}/gmail-auth-complete
CompleteAuth(u, auth_input) ==
    /\ call = NoCall
    /\ run.pc = "idle"
    /\ UserExists(u)
    /\ \E res \in CompleteAuthResults(credentials_files[u], auth_input, token_files[u]) :
          /\ call' = [op |-> "complete_auth", pc |-> "done", user_id |-> u,
                      input |-> auth_input, has_credentials |-> credentials_files[u],
                      ok |-> res.ok, code |-> res.code, error |-> res.error,
                      exchanged |-> res.exchanged, token_before |-> token_files[u]]
          /\ token_files' = [token_files EXCEPT ![u] = res.token]
    /\ UNCHANGED <<envvars, credentials_files, resume_files, email_logs, run,
                   runs_started, delivered, templates, run2>>

\* Variant: a failure of the check is reported without an error text.
CheckFailedSilent(u, has_token, error, probe) ==
    [op |-> "check", pc |-> "done", user_id |-> u, connected |-> FALSE,
     has_credentials |-> credentials_files[u], has_token |-> has_token,
     email |-> NoneStr, error |-> NoneStr, probe |-> probe, raised |-> FALSE]

\* check_gmail_connection: a return with result["error"] set
CheckFailed(u, has_token, error, probe) ==
    [op |-> "check", pc |-> "done", user_id |-> u, connected |-> FALSE,
     has_credentials |-> credentials_files[u], has_token |-> has_token,
     email |-> NoneStr, error |-> error, probe |-> probe, raised |-> FALSE]

\* lines 150-157: the profile probe, and the reply
ProbeResults(u) ==
    {[op |-> "check", pc |-> "done", user_id |-> u, connected |-> TRUE,
      has_credentials |-> TRUE, has_token |-> TRUE,
      email |-> "owner@gmail", error |-> NoneStr, probe |-> "ok", raised |-> FALSE],
     CheckFailed(u, TRUE, "profile probe failed", "failed")}

\* check_gmail_connection up to its first write of the token file, or to its
\* return: the reply (or the call in progress) and the token file afterwards
CheckResults(u) ==
    LET tok == token_files[u]
    IN  IF ~credentials_files[u]
        THEN {[call |-> CheckFailed(u, tok # "none", "Credentials file not uploaded", "none"),
               token |-> tok]}
        ELSE IF tok = "none"
        THEN {[call |-> CheckFailed(u, FALSE, "Not authorized yet", "none"), token |-> tok]}
        ELSE IF tok \in {"valid", "valid_norefresh"}
        THEN {[call |-> c, token |-> tok] : c \in ProbeResults(u)}
        ELSE IF tok = "expired"
        THEN {[call |-> CheckFailed(u, TRUE, "refresh failed", "none"), token |-> tok],
              [call |-> [op |-> "check", pc |-> "writing", user_id |-> u],
               token |-> "truncated"]}
        ELSE IF tok = "truncated"
        THEN {[call |-> CheckFailed(u, TRUE, "token file unreadable", "none"), token |-> tok]}
        ELSE {[call |-> CheckFailed(u, TRUE, "Token expired and cannot be refreshed", "none"),
               token |-> tok]}

\* GET /users/{id}/gmail-status -> get_gmail_status -> check_gmail_connection.
\* After a successful refresh the token file is open for writing
\* (open(token_path, "w") has truncated it) until CheckFinish.
CheckConnection(u) ==
    /\ call = NoCall
    /\ UserExists(u)
    /\ \E res \in CheckResults(u) :
          /\ call' = res.call
          /\ token_files' = [token_files EXCEPT ![u] = res.token]
    /\ UNCHANGED <<envvars, credentials_files, resume_files, email_logs, run,
                   runs_started, delivered, templates, run2>>

\* lines 139-153: token.write(creds.to_json()), the file is closed, then the
\* profile probe and the return
CheckFinish ==
    /\ call.op = "check"
    /\ call.pc = "writing"
    /\ token_files' = [token_files EXCEPT ![call.user_id] = "valid"]
    /\ call' \in ProbeResults(call.user_id)
    /\ UNCHANGED <<envvars, credentials_files, resume_files, email_logs, run,
                   runs_started, delivered, templates, run2>>

\* POST /users/{id}/gmail-disconnect -> GmailAuthService.disconnect_gmail:
\* the token file of the owner is removed if it exists; (True, message).
Disconnect(u) ==
    /\ call = NoCall
    /\ run.pc = "idle"
    /\ UserExists(u)
    /\ call' = [op |-> "disconnect", pc |-> "done", user_id |-> u, ok |-> TRUE,
                token_before |-> token_files[u]]
    /\ token_files' = [token_files EXCEPT ![u] = "none"]
    /\ UNCHANGED <<envvars, credentials_files, resume_files, email_logs, run,
                   runs_started, delivered, templates, run2>>

\* the reply is sent
Return ==
    /\ call.pc = "done"
    /\ call' = NoCall
    /\ UNCHANGED <<envvars, filevars, email_logs, run, runs_started, delivered,
                   templates, run2>>

(***************************************************************************)
(* The dispatch run.                                                       *)
(***************************************************************************)
\* send_emails_endpoint: the generator object is created; nothing of its
\* body runs before the first next().
StartRun(user_id, recipient_ids, dry_run) ==
    /\ run.pc = "idle"
    /\ runs_started < MaxRuns
    /\ run' = [IdleRun EXCEPT !.pc = "validating", !.user_id = user_id,
                              !.recipient_ids = recipient_ids, !.dry_run = dry_run,
                              !.log_start = email_logs]
    /\ runs_started' = runs_started + 1
    /\ UNCHANGED <<envvars, sidevars, filevars, email_logs, delivered>>

\* Variant: a request that selects no recipient goes on to an empty loop.
ValidateResultAllowsEmpty(rn) ==
    IF ~UserExists(rn.user_id) THEN Raise(rn)
    ELSE IF ~credentials_files[rn.user_id] THEN Abort(rn, "Gmail credentials not uploaded")
    ELSE IF ~resume_files[rn.user_id] THEN Abort(rn, "Resume not uploaded")
    ELSE LET loaded == [rn EXCEPT !.template = GetOrDefault(rn.user_id)]
         IN  IF InvalidIds(rn.user_id, rn.recipient_ids) # {}
             THEN Abort(loaded, "Recipients not linked to this user")
             ELSE [loaded EXCEPT !.pc = "reading",
                                 !.recipients = QueryRecipients(rn.recipient_ids)]

\* lines 49-82.  The template read of lines 66-68 (get_or_default) gives the
\* stored or the default content and decides nothing here.
ValidateResult(rn) ==
    IF ~UserExists(rn.user_id) THEN Raise(rn)
    ELSE IF ~credentials_files[rn.user_id] THEN Abort(rn, "Gmail credentials not uploaded")
    ELSE IF ~resume_files[rn.user_id] THEN Abort(rn, "Resume not uploaded")
    ELSE LET loaded == [rn EXCEPT !.template = GetOrDefault(rn.user_id)]
         IN  IF InvalidIds(rn.user_id, rn.recipient_ids) # {}
             THEN Abort(loaded, "Recipients not linked to this user")
             ELSE IF QueryRecipients(rn.recipient_ids) = <<>>
             THEN Abort(loaded, "No valid recipients found")
             ELSE [loaded EXCEPT !.pc = "reading",
                                 !.recipients = QueryRecipients(rn.recipient_ids)]

Validate ==
    /\ run.pc = "validating"
    /\ run' = ValidateResult(run)
    /\ UNCHANGED <<envvars, sidevars, filevars, email_logs, runs_started, delivered>>

\* lines 84-100
ReadSent ==
    /\ run.pc = "reading"
    /\ run' = [run EXCEPT !.pc = "authenticating",
                          !.sent_recipient_ids = SentRecipientIds(email_logs, run.user_id),
                          !.sent_emails = SentEmails(email_logs, run.user_id)]
    /\ UNCHANGED <<envvars, sidevars, filevars, email_logs, runs_started, delivered>>

\* Variant: the authentication error is reported but the run goes on.
AuthenticateResultGoesOn(rn, res) ==
    LET tried == [rn EXCEPT !.auth = Append(@, res.error), !.token_seen = res.seen,
                            !.refreshes = @ + res.refreshes]
    IN  IF res.ok
        THEN [tried EXCEPT !.pc = "iterating", !.service = TRUE]
        ELSE [tried EXCEPT !.pc = "iterating",
                           !.events = Append(@, ErrorEvent("Gmail authentication failed"))]

\* lines 102-112
AuthenticateResult(rn, res) ==
    LET tried == [rn EXCEPT !.auth = Append(@, res.error), !.token_seen = res.seen,
                            !.refreshes = @ + res.refreshes]
    IN  IF res.ok
        THEN [tried EXCEPT !.pc = "iterating", !.service = TRUE]
        ELSE Abort(tried, "Gmail authentication failed")

\* Variant: the token is checked in a dry run too.
AuthenticateAlways ==
    /\ run.pc = "authenticating"
    /\ \E res \in AuthResults(token_files[run.user_id]) :
          /\ run' = AuthenticateResult(run, res)
          /\ token_files' = [token_files EXCEPT ![run.user_id] = res.token]
    /\ UNCHANGED <<envvars, sidevars, credentials_files, resume_files, email_logs,
                   runs_started, delivered>>

Authenticate ==
    /\ run.pc = "authenticating"
    /\ IF run.dry_run
       THEN /\ run' = [run EXCEPT !.pc = "iterating"]
            /\ UNCHANGED token_files
       ELSE \E res \in AuthResults(token_files[run.user_id]) :
              /\ run' = AuthenticateResult(run, res)
              /\ token_files' = [token_files EXCEPT ![run.user_id] = res.token]
    /\ UNCHANGED <<envvars, sidevars, credentials_files, resume_files, email_logs,
                   runs_started, delivered>>

\* Variant: the loop reads the sent keys again for every recipient.
IterateRereads ==
    /\ run.pc = "iterating"
    /\ run.i <= Len(run.recipients)
    /\ \E res \in IterationResults(
                    [run EXCEPT !.sent_recipient_ids = SentRecipientIds(email_logs, run.user_id),
                                !.sent_emails = SentEmails(email_logs, run.user_id)],
                    email_logs, delivered, store_faulty) :
          /\ run' = res.run
          /\ email_logs' = res.logs
          /\ delivered' = res.delivered
    /\ UNCHANGED <<envvars, sidevars, filevars, runs_started>>

\* lines 115-214, one recipient
Iterate ==
    /\ run.pc = "iterating"
    /\ run.i <= Len(run.recipients)
    /\ \E res \in IterationResults(run, email_logs, delivered, store_faulty) :
          /\ run' = res.run
          /\ email_logs' = res.logs
          /\ delivered' = res.delivered
    /\ UNCHANGED <<envvars, sidevars, filevars, runs_started>>

\* the for loop is exhausted: the generator returns
Complete ==
    /\ run.pc = "iterating"
    /\ run.i > Len(run.recipients)
    /\ run' = [run EXCEPT !.pc = "completed"]
    /\ UNCHANGED <<envvars, sidevars, filevars, email_logs, runs_started, delivered>>

\* the response is finished and the generator object is dropped
EndRun ==
    /\ run.pc \in Terminal
    /\ run' = IdleRun
    /\ UNCHANGED <<envvars, sidevars, filevars, email_logs, runs_started, delivered>>

Requests == SeqsUpTo(RecipientIds, MaxReqLen)

Next ==
    \/ \E u \in UserIds : UploadCredentials(u)
    \/ \E u \in UserIds : UploadResume(u)
    \/ \E u \in UserIds : CompleteAuthorization(u)
    \/ \E u \in UserIds : TokenExpires(u)
    \/ \E u \in UserIds, content \in TemplateContents : SaveTemplate(u, content)
    \/ \E u \in UserIds, ids \in Requests, d \in BOOLEAN : StartRun(u, ids, d)
    \/ Validate
    \/ ReadSent
    \/ Authenticate
    \/ Iterate
    \/ Complete
    \/ EndRun

Spec == Init /\ [][Next]_vars

\* the same program on a store whose commits may fail
SpecFaulty == InitFaulty /\ [][Next]_vars

(***************************************************************************)
(* A second request to send_emails_endpoint, served while the first is.    *)
(* Its generator runs the same code on its own local state.                *)
(***************************************************************************)
StartRun2(user_id, recipient_ids, dry_run) ==
    /\ run2.pc = "idle"
    /\ runs_started < MaxRuns
    /\ run2' = [IdleRun EXCEPT !.pc = "validating", !.user_id = user_id,
                               !.recipient_ids = recipient_ids, !.dry_run = dry_run,
                               !.log_start = email_logs]
    /\ runs_started' = runs_started + 1
    /\ UNCHANGED <<envvars, filevars, email_logs, delivered, run, templates, call>>

Validate2 ==
    /\ run2.pc = "validating"
    /\ run2' = ValidateResult(run2)
    /\ UNCHANGED <<envvars, filevars, email_logs, runs_started, delivered, run,
                   templates, call>>

ReadSent2 ==
    /\ run2.pc = "reading"
    /\ run2' = [run2 EXCEPT !.pc = "authenticating",
                            !.sent_recipient_ids = SentRecipientIds(email_logs, run2.user_id),
                            !.sent_emails = SentEmails(email_logs, run2.user_id)]
    /\ UNCHANGED <<envvars, filevars, email_logs, runs_started, delivered, run,
                   templates, call>>

Authenticate2 ==
    /\ run2.pc = "authenticating"
    /\ IF run2.dry_run
       THEN /\ run2' = [run2 EXCEPT !.pc = "iterating"]
            /\ UNCHANGED token_files
       ELSE \E res \in AuthResults(token_files[run2.user_id]) :
              /\ run2' = AuthenticateResult(run2, res)
              /\ token_files' = [token_files EXCEPT ![run2.user_id] = res.token]
    /\ UNCHANGED <<envvars, credentials_files, resume_files, email_logs,
                   runs_started, delivered, run, templates, call>>

Iterate2 ==
    /\ run2.pc = "iterating"
    /\ run2.i <= Len(run2.recipients)
    /\ \E res \in IterationResults(run2, email_logs, delivered, store_faulty) :
          /\ run2' = res.run
          /\ email_logs' = res.logs
          /\ delivered' = res.delivered
    /\ UNCHANGED <<envvars, filevars, runs_started, run, templates, call>>

Complete2 ==
    /\ run2.pc = "iterating"
    /\ run2.i > Len(run2.recipients)
    /\ run2' = [run2 EXCEPT !.pc = "completed"]
    /\ UNCHANGED <<envvars, filevars, email_logs, runs_started, delivered, run,
                   templates, call>>

EndRun2 ==
    /\ run2.pc \in Terminal
    /\ run2' = IdleRun
    /\ UNCHANGED <<envvars, filevars, email_logs, runs_started, delivered, run,
                   templates, call>>

(***************************************************************************)
(* Two account owners.  Owner 1 is linked to recipients 1 and 2, owner 2   *)
(* to recipient 2; both have uploaded their files; owner 1 holds a valid   *)
(* token and owner 2 an expired one with a refresh token.  The calling     *)
(* layer admits one run per owner at a time: run serves owner 1 and run2   *)
(* owner 2.                                                                *)
(***************************************************************************)
InitTwoOwners ==
    /\ users = {1, 2}
    /\ recipients = (1 :> "a") @@ (2 :> "b") @@ (3 :> "c")
    /\ user_recipients = {<<1, 1>>, <<1, 2>>, <<2, 2>>}
    /\ email_logs = <<>>
    /\ credentials_files = [u \in UserIds |-> TRUE]
    /\ resume_files = [u \in UserIds |-> TRUE]
    /\ token_files = (1 :> "valid") @@ (2 :> "expired")
    /\ run = IdleRun
    /\ runs_started = 0
    /\ delivered = [k \in UserIds \X {"a", "b", "c"} |-> 0]
    /\ templates = [u \in UserIds |-> NoTemplate]
    /\ run2 = IdleRun
    /\ call = NoCall
    /\ store_faulty = FALSE

\* the requests that name recipients linked to owner u, each once
LinkedRequests(u) ==
    {ids \in Requests : /\ Range(ids) \subseteq UserRecipientIds(u)
                        /\ Cardinality(Range(ids)) = Len(ids)}

NextTwoOwners ==
    \/ \E ids \in LinkedRequests(1), d \in BOOLEAN : StartRun(1, ids, d)
    \/ Validate
    \/ ReadSent
    \/ Authenticate
    \/ Iterate
    \/ Complete
    \/ EndRun
    \/ \E ids \in LinkedRequests(2), d \in BOOLEAN : StartRun2(2, ids, d)
    \/ Validate2
    \/ ReadSent2
    \/ Authenticate2
    \/ Iterate2
    \/ Complete2
    \/ EndRun2

SpecTwoOwners == InitTwoOwners /\ [][NextTwoOwners]_vars

(***************************************************************************)
(* EmailService.delete_logs.  A before_date text is the sequence of the    *)
(* texts between its "-" separators; the empty sequence is the empty       *)
(* string.  sent_at is the insertion time of a record, so the records sent *)
(* before a date are the first `older` records of the log.                 *)
(***************************************************************************)
YearTexts == {"2024", "24"}
MonthTexts == {"01", "1", "13"}
DayTexts == {"05", "5"}

\* number of digits of a field text
Width(t) == CASE t = "2024" -> 4
              [] t \in {"24", "01", "13", "05"} -> 2
              [] OTHER -> 1

\* int(t)
Number(t) == CASE t = "2024" -> 2024
               [] t = "24" -> 24
               [] t = "13" -> 13
               [] t \in {"01", "1"} -> 1
               [] OTHER -> 5

NoDate == [is_none |-> TRUE, text |-> <<>>]
DateStr(text) == [is_none |-> FALSE, text |-> text]

DateInputs ==
    {NoDate, DateStr(<<>>)}
        \cup {DateStr(<<y, m, d>>) : y \in YearTexts, m \in MonthTexts, d \in DayTexts}

\* datetime.strptime(text, "%Y-%m-%d"): %Y takes four digits, %m and %d one
\* or two; ok = FALSE stands for ValueError
strptime(text) ==
    IF /\ Len(text) = 3
       /\ Width(text[1]) = 4
       /\ Width(text[2]) \in 1..2 /\ Number(text[2]) \in 1..12
       /\ Width(text[3]) \in 1..2 /\ Number(text[3]) \in 1..31
    THEN [ok |-> TRUE, date |-> <<Number(text[1]), Number(text[2]), Number(text[3])>>]
    ELSE [ok |-> FALSE, date |-> <<>>]

\* the positions of the records the query of delete_logs selects
DeleteMatches(logs, user_id, recipient_id, status, dated, older) ==
    {i \in 1..Len(logs) :
        /\ logs[i].user_id = user_id
        /\ (recipient_id # None => logs[i].recipient_id = recipient_id)
        /\ (status # NoneStr => logs[i].status = status)
        /\ (dated => i <= older)}

RECURSIVE Without(_, _)
Without(logs, positions) ==
    IF logs = <<>> THEN <<>>
    ELSE LET front == Without(SubSeq(logs, 1, Len(logs) - 1), positions)
         IN  IF Len(logs) \in positions THEN front ELSE Append(front, logs[Len(logs)])

DeleteRaise(logs, error) == [raised |-> error, logs |-> logs, deleted_count |-> 0]

\* a delete_logs that runs the undated query before it parses the date
DeleteLogsResultParsesLate(logs, user_id, recipient_id, status, before_date, older, all_logs) ==
    LET dated == ~before_date.is_none /\ before_date.text # <<>>
        early == DeleteMatches(logs, user_id, recipient_id, status, FALSE, older)
        hits  == DeleteMatches(logs, user_id, recipient_id, status, dated, older)
    IN  IF ~UserExists(user_id) THEN DeleteRaise(logs, "UserNotFoundError")
        ELSE IF ~all_logs /\ recipient_id = None /\ status = NoneStr /\ ~dated
        THEN DeleteRaise(logs, "Must specify at least one filter or set all_logs=True")
        ELSE IF dated /\ ~strptime(before_date.text).ok
        THEN DeleteRaise(Without(logs, early), "Invalid date format. Use YYYY-MM-DD")
        ELSE [raised |-> NoneStr, logs |-> Without(logs, hits),
              deleted_count |-> Cardinality(hits)]

DeleteLogsResult(logs, user_id, recipient_id, status, before_date, older, all_logs) ==
    LET dated == ~before_date.is_none /\ before_date.text # <<>>
        hits  == DeleteMatches(logs, user_id, recipient_id, status, dated, older)
    IN  IF ~UserExists(user_id) THEN DeleteRaise(logs, "UserNotFoundError")
        ELSE IF ~all_logs /\ recipient_id = None /\ status = NoneStr /\ ~dated
        THEN DeleteRaise(logs, "Must specify at least one filter or set all_logs=True")
        ELSE IF dated /\ ~strptime(before_date.text).ok
        THEN DeleteRaise(logs, "Invalid date format. Use YYYY-MM-DD")
        ELSE [raised |-> NoneStr, logs |-> Without(logs, hits),
              deleted_count |-> Cardinality(hits)]

\* DELETE /users/{id}/email-logs
DeleteLogs(u, recipient_id, status, before_date, older, all_logs) ==
    /\ call = NoCall
    /\ LET res == DeleteLogsResult(email_logs, u, recipient_id, status, before_date,
                                   older, all_logs)
       IN  /\ email_logs' = res.logs
           /\ call' = [op |-> "delete_logs", pc |-> "done", user_id |-> u,
                       recipient_id |-> recipient_id, status |-> status,
                       before_date |-> before_date, all_logs |-> all_logs,
                       raised |-> res.raised, deleted_count |-> res.deleted_count,
                       logs_before |-> email_logs]
    /\ UNCHANGED <<envvars, filevars, run, runs_started, delivered, templates, run2>>

(***************************************************************************)
(* The owner's log: real runs of owner 1, who has uploaded the files and   *)
(* holds a valid token, with deletion requests between the runs, each      *)
(* answered before the next run starts.                                    *)
(***************************************************************************)
InitLogs ==
    /\ users = {1}
    /\ recipients = (1 :> "a") @@ (2 :> "b") @@ (3 :> "c")
    /\ user_recipients = {<<1, 1>>, <<1, 2>>}
    /\ email_logs = <<>>
    /\ credentials_files = [u \in UserIds |-> u = 1]
    /\ resume_files = [u \in UserIds |-> u = 1]
    /\ token_files = (1 :> "valid") @@ (2 :> "none")
    /\ run = IdleRun
    /\ runs_started = 0
    /\ delivered = [k \in UserIds \X {"a", "b", "c"} |-> 0]
    /\ templates = [u \in UserIds |-> NoTemplate]
    /\ run2 = IdleRun
    /\ call = NoCall
    /\ store_faulty = FALSE

NextLogs ==
    \/ /\ call = NoCall
       /\ \E ids \in LinkedRequests(1) : StartRun(1, ids, FALSE)
    \/ Validate
    \/ ReadSent
    \/ Authenticate
    \/ Iterate
    \/ Complete
    \/ EndRun
    \/ /\ call = NoCall /\ run.pc = "idle"
       /\ \E u \in UserIds, recipient_id \in {None} \cup UserRecipientIds(1),
             status \in {NoneStr, "sent", "failed"}, before_date \in DateInputs,
             older \in 0..Len(email_logs), all_logs \in BOOLEAN :
               DeleteLogs(u, recipient_id, status, before_date, older, all_logs)
    \/ Return

SpecLogs == InitLogs /\ [][NextLogs]_vars

(***************************************************************************)
(* gmail_service.create_message.  A template is a sequence of lexical      *)
(* tokens: the letters "a" (ASCII) and "e'" (the two-byte e acute), a      *)
(* blank, a line feed, the long word "W", the escaped brace "{{" and the   *)
(* three placeholders.  A body is a sequence of characters.                *)
(***************************************************************************)
PlaceholderTokens == {"{salutation}", "{company}", "{company_name}"}
TemplateTokens == {"a", "e'", " ", "LF", "W", "{{"} \cup PlaceholderTokens

\* the name between the braces of a replacement field
PlaceholderName(t) ==
    CASE t = "{salutation}" -> "salutation"
      [] t = "{company}" -> "company"
      [] OTHER -> "company_name"

\* the names of the replacement fields of a template text
Placeholders(template) ==
    {PlaceholderName(template[k]) :
        k \in {j \in 1..Len(template) : template[j] \in PlaceholderTokens}}

LongWord == [k \in 1..LongWordLen |-> "a"]

RECURSIVE FormatText(_, _, _)
\* the text str.format produces when every field has a value
FormatText(template, salutation, company) ==
    IF template = <<>> THEN <<>>
    ELSE LET t == Head(template)
             piece == CASE t = "{salutation}" -> salutation
                        [] t = "{company}" -> company
                        [] t = "{{" -> <<"{">>
                        [] t = "W" -> LongWord
                        [] OTHER -> <<t>>
         IN  piece \o FormatText(Tail(template), salutation, company)

\* template.format(salutation=salutation, company=company)
Format(template, salutation, company) ==
    IF Placeholders(template) \ FormatKeys # {}
    THEN [raised |-> "KeyError", body |-> <<>>]
    ELSE [raised |-> NoneStr, body |-> FormatText(template, salutation, company)]

\* str.encode("utf-8") of one character
Utf8(c) ==
    CASE c = "e'" -> <<195, 169>>
      [] c = "a" -> <<97>>
      [] c = "s" -> <<115>>
      [] c = "c" -> <<99>>
      [] c = " " -> <<32>>
      [] c = "LF" -> <<10>>
      [] OTHER -> <<123>>

RECURSIVE Encode(_)
\* str.encode("utf-8"), the text taken by halves
Encode(text) ==
    IF text = <<>> THEN <<>>
    ELSE IF Len(text) = 1 THEN Utf8(text[1])
    ELSE LET h == Len(text) \div 2
         IN  Encode(SubSeq(text, 1, h)) \o Encode(SubSeq(text, h + 1, Len(text)))

\* the character of a one-byte UTF-8 sequence
Chr(b) ==
    CASE b = 97 -> "a"
      [] b = 115 -> "s"
      [] b = 99 -> "c"
      [] b = 32 -> " "
      [] b = 10 -> "LF"
      [] OTHER -> "{"

RECURSIVE Decode(_)
\* bytes.decode("utf-8"), the bytes taken by halves cut between characters
Decode(bytes) ==
    IF bytes = <<>> THEN <<>>
    ELSE IF Len(bytes) = 1 THEN <<Chr(bytes[1])>>
    ELSE IF Len(bytes) = 2 /\ bytes[1] = 195 THEN <<"e'">>
    ELSE LET m == Len(bytes) \div 2
             h == IF bytes[m] = 195 THEN m + 1 ELSE m
         IN  Decode(SubSeq(bytes, 1, h)) \o Decode(SubSeq(bytes, h + 1, Len(bytes)))

\* body.encode("us-ascii") succeeds
IsAscii(text) == \A k \in 1..Len(text) : text[k] # "e'"

\* base64 output symbols: 0..63 are the alphabet, Pad is "=", Eol the line end
Pad == 64
Eol == 65

RECURSIVE b64encode(_)
\* binascii.b2a_base64 without its line end: three bytes give four symbols
b64encode(bytes) ==
    IF bytes = <<>> THEN <<>>
    ELSE IF Len(bytes) = 1
    THEN <<bytes[1] \div 4, (bytes[1] % 4) * 16, Pad, Pad>>
    ELSE IF Len(bytes) = 2
    THEN <<bytes[1] \div 4, (bytes[1] % 4) * 16 + bytes[2] \div 16,
           (bytes[2] % 16) * 4, Pad>>
    ELSE <<bytes[1] \div 4, (bytes[1] % 4) * 16 + bytes[2] \div 16,
           (bytes[2] % 16) * 4 + bytes[3] \div 64, bytes[3] % 64>>
            \o b64encode(SubSeq(bytes, 4, Len(bytes)))

RECURSIVE body_encode(_)
\* email.base64mime.body_encode: lines of 76 symbols (57 bytes), each ended
body_encode(bytes) ==
    IF bytes = <<>> THEN <<>>
    ELSE IF Len(bytes) <= 57 THEN Append(b64encode(bytes), Eol)
    ELSE Append(b64encode(SubSeq(bytes, 1, 57)), Eol)
            \o body_encode(SubSeq(bytes, 58, Len(bytes)))

RECURSIVE b64decode(_)
\* base64 decoding of a text without line ends: four symbols give up to
\* three bytes; the text is taken by halves of whole groups
b64decode(symbols) ==
    IF Len(symbols) < 4 THEN <<>>
    ELSE IF Len(symbols) < 8
    THEN LET q == symbols
             b1 == q[1] * 4 + q[2] \div 16
             b2 == (q[2] % 16) * 16 + q[3] \div 4
             b3 == (q[3] % 4) * 64 + q[4]
         IN  IF q[3] = Pad THEN <<b1>>
             ELSE IF q[4] = Pad THEN <<b1, b2>>
             ELSE <<b1, b2, b3>>
    ELSE LET h == 4 * ((Len(symbols) \div 4) \div 2)
         IN  b64decode(SubSeq(symbols, 1, h)) \o b64decode(SubSeq(symbols, h + 1, Len(symbols)))

\* MIMEText(body, "plain") without a charset: us-ascii and 7bit when the body
\* encodes as ASCII, else utf-8 and base64
MIMEText(body) ==
    IF IsAscii(body)
    THEN [charset |-> "us-ascii", cte |-> "7bit", payload |-> Encode(body)]
    ELSE [charset |-> "utf-8", cte |-> "base64", payload |-> body_encode(Encode(body))]

\* part.get_content() of the text part of the parsed envelope
get_content(part) ==
    IF part.cte = "base64"
    THEN Decode(b64decode(SelectSeq(part.payload, LAMBDA x : x # Eol)))
    ELSE Decode(part.payload)

NoPart == [charset |-> "", cte |-> "", payload |-> <<>>]

\* create_message: format, then build the text part (the attachment is read
\* after both)
create_message(salutation, company, template) ==
    LET f == Format(template, salutation, company)
    IN  IF f.raised # NoneStr
        THEN [raised |-> f.raised, body |-> <<>>, text_part |-> NoPart]
        ELSE [raised |-> NoneStr, body |-> f.body, text_part |-> MIMEText(f.body)]

Salutations == {<<"s">>}
Companies == {<<>>, <<"c">>, <<"e'">>}
TemplateTexts == SeqsUpTo(TemplateTokens, MaxTemplateLen)

\* a call of create_message with a readable resume
CreateMessage(salutation, company, template) ==
    /\ call = NoCall
    /\ LET res == create_message(salutation, company, template)
       IN  call' = [op |-> "create_message", pc |-> "done", salutation |-> salutation,
                    company |-> company, template |-> template,
                    raised |-> res.raised, body |-> res.body,
                    text_part |-> res.text_part]
    /\ UNCHANGED <<envvars, filevars, email_logs, run, runs_started, delivered,
                   templates, run2>>

NextEncoder ==
    \/ /\ call = NoCall
       /\ \E salutation \in Salutations, company \in Companies,
             template \in TemplateTexts :
               CreateMessage(salutation, company, template)
    \/ Return

SpecEncoder == Init /\ [][NextEncoder]_vars

(***************************************************************************)
(* The consumer of the event stream.  StreamingResponse iterates the       *)
(* generator: each next() runs it up to its next yield, and the code after *)
(* a yield runs only when the consumer asks for the next event.  call      *)
(* holds the consumer: the number of next() calls it has made so far.      *)
(***************************************************************************)
Pulls == IF call.op = "stream" THEN call.pulls ELSE 0

Started == {"validating", "reading", "authenticating", "iterating"}

\* Variant: the events are produced eagerly, whether asked for or not.
RunningEager == run.pc \in Started

\* the generator has been resumed and has not reached its next yield
Running == run.pc \in Started /\ Pulls = Len(run.events) + 1

\* the consumer asks for the next event
Pull ==
    /\ run.pc \in Started
    /\ Pulls = Len(run.events)
    /\ call' = [op |-> "stream", pc |-> "open", pulls |-> Pulls + 1]
    /\ UNCHANGED <<envvars, filevars, email_logs, run, runs_started, delivered,
                   templates, run2>>

\* the consumer goes away while the generator is suspended at the yield of a
\* recipient's event: close() raises GeneratorExit there, which the
\* `except Exception` of the loop does not catch
Cancel ==
    /\ run.pc = "iterating"
    /\ run.events # <<>>
    /\ Pulls = Len(run.events)
    /\ run' = [run EXCEPT !.pc = "closed"]
    /\ UNCHANGED <<envvars, sidevars, filevars, email_logs, runs_started, delivered>>

\* the iteration is over: the generator returned, raised or was closed
StreamEnd ==
    /\ call.op = "stream"
    /\ call.pc = "open"
    /\ run.pc \in Terminal \cup {"closed"}
    /\ call' = [call EXCEPT !.pc = "done"]
    /\ UNCHANGED <<envvars, filevars, email_logs, run, runs_started, delivered,
                   templates, run2>>

\* the closed generator object is dropped
CloseRun ==
    /\ run.pc = "closed"
    /\ run' = IdleRun
    /\ UNCHANGED <<envvars, sidevars, filevars, email_logs, runs_started, delivered>>

(***************************************************************************)
(* The stream of one owner who has uploaded the files and holds a valid    *)
(* token, over a store whose commits succeed or may raise.                 *)
(***************************************************************************)
InitStream ==
    /\ users = {1}
    /\ recipients = (1 :> "a") @@ (2 :> "b") @@ (3 :> "c")
    /\ user_recipients = {<<1, 1>>, <<1, 2>>}
    /\ email_logs = <<>>
    /\ credentials_files = [u \in UserIds |-> u = 1]
    /\ resume_files = [u \in UserIds |-> u = 1]
    /\ token_files = (1 :> "valid") @@ (2 :> "none")
    /\ run = IdleRun
    /\ runs_started = 0
    /\ delivered = [k \in UserIds \X {"a", "b", "c"} |-> 0]
    /\ templates = [u \in UserIds |-> NoTemplate]
    /\ run2 = IdleRun
    /\ call = NoCall
    /\ store_faulty \in BOOLEAN

NextStream ==
    \/ /\ call = NoCall
       /\ \E ids \in Requests, d \in BOOLEAN : StartRun(1, ids, d)
    \/ Pull
    \/ Running /\ Validate
    \/ Running /\ ReadSent
    \/ Running /\ Authenticate
    \/ Running /\ Iterate
    \/ Running /\ Complete
    \/ Cancel
    \/ StreamEnd
    \/ call.pc = "done" /\ EndRun
    \/ call.pc = "done" /\ CloseRun
    \/ run.pc = "idle" /\ Return

SpecStream == InitStream /\ [][NextStream]_vars

(***************************************************************************)
(* A caller that keeps pulling: every step of the generator that can be    *)
(* taken is eventually taken.                                              *)
(***************************************************************************)
Fairness ==
    /\ WF_vars(Validate)
    /\ WF_vars(ReadSent)
    /\ WF_vars(Authenticate)
    /\ WF_vars(Iterate)
    /\ WF_vars(Complete)

SpecLive == Init /\ [][Next]_vars /\ Fairness

(***************************************************************************)
(* The credential endpoints alone: authorization inputs of every shape     *)
(* against every state of the owner's files.                               *)
(***************************************************************************)
NextAuth ==
    \/ \E u \in UserIds : UploadCredentials(u)
    \/ \E u \in UserIds : GetAuthUrl(u)
    \/ /\ call = NoCall
       /\ \E u \in UserIds, auth_input \in AuthInputs : CompleteAuth(u, auth_input)
    \/ \E u \in UserIds : Disconnect(u)
    \/ Return

SpecAuth == Init /\ [][NextAuth]_vars

(***************************************************************************)
(* Real dispatch runs of the owner with status checks and disconnects of   *)
(* the same owner arriving at any moment.                                  *)
(***************************************************************************)
NextGmail ==
    \/ \E u \in UserIds : UploadCredentials(u)
    \/ \E u \in UserIds : UploadResume(u)
    \/ \E u \in UserIds : CompleteAuthorization(u)
    \/ \E u \in UserIds : TokenExpires(u)
    \/ \E u \in UserIds, ids \in Requests : StartRun(u, ids, FALSE)
    \/ Validate
    \/ ReadSent
    \/ Authenticate
    \/ Iterate
    \/ Complete
    \/ EndRun
    \/ \E u \in UserIds : CheckConnection(u)
    \/ CheckFinish
    \/ \E u \in UserIds : Disconnect(u)
    \/ Return

SpecGmail == Init /\ [][NextGmail]_vars

(***************************************************************************)
(* Recipients and links: services/recipient_service.py.                    *)
(***************************************************************************)
Addresses == {"a", "b", "c"}

\* the primary key the store gives a new row of table recipients
NextRecipientId ==
    IF DOMAIN recipients = {} THEN 1
    ELSE (CHOOSE m \in DOMAIN recipients : \A r \in DOMAIN recipients : r <= m) + 1

Restrict(f, S) == [x \in S |-> f[x]]

\* RecipientService.create; an address that exists raises ValueError
CreateRecipient(email) ==
    /\ call = NoCall
    /\ NextRecipientId \in RecipientIds
    /\ IF \E r \in DOMAIN recipients : recipients[r] = email
       THEN /\ call' = [op |-> "create", pc |-> "done", raised |-> "ValueError",
                        recipient_id |-> None]
            /\ UNCHANGED recipients
       ELSE /\ call' = [op |-> "create", pc |-> "done", raised |-> NoneStr,
                        recipient_id |-> NextRecipientId]
            /\ recipients' = recipients @@ (NextRecipientId :> email)
    /\ UNCHANGED <<users, user_recipients, store_faulty, filevars, email_logs, run,
                   runs_started, delivered, templates, run2>>

\* the sent_subquery of get_by_user
UsedRecipientIds(logs, user_id) ==
    {l.recipient_id : l \in {x \in Range(logs) : /\ x.user_id = user_id
                                                  /\ x.status = "sent"
                                                  /\ x.recipient_id # None}}

\* RecipientService.get_by_user, as the set of the ids of the rows returned;
\* used is "true", "false" or NoneStr
GetByUser(logs, user_id, used) ==
    LET linked == UserRecipientIds(user_id)
    IN  IF used = NoneStr THEN linked
        ELSE IF used = "true" THEN linked \cap UsedRecipientIds(logs, user_id)
        ELSE linked \ UsedRecipientIds(logs, user_id)

\* GET /users/{id}/recipients
ListRecipients(u, used) ==
    /\ call = NoCall
    /\ call' = IF UserExists(u)
               THEN [op |-> "get_by_user", pc |-> "done", user_id |-> u, used |-> used,
                     raised |-> NoneStr, result |-> GetByUser(email_logs, u, used),
                     logs_read |-> email_logs]
               ELSE [op |-> "get_by_user", pc |-> "done", user_id |-> u, used |-> used,
                     raised |-> "UserNotFoundError", result |-> {},
                     logs_read |-> email_logs]
    /\ UNCHANGED <<envvars, filevars, email_logs, run, runs_started, delivered,
                   templates, run2>>

\* RecipientService.link_to_user
LinkToUser(u, recipient_id) ==
    /\ call = NoCall
    /\ LET reply(raised, linked) ==
              [op |-> "link_to_user", pc |-> "done", user_id |-> u,
               recipient_id |-> recipient_id, raised |-> raised, linked |-> linked]
       IN  IF ~UserExists(u)
           THEN call' = reply("UserNotFoundError", FALSE) /\ UNCHANGED user_recipients
           ELSE IF recipient_id \notin DOMAIN recipients
           THEN call' = reply("RecipientNotFoundError", FALSE) /\ UNCHANGED user_recipients
           ELSE IF <<u, recipient_id>> \in user_recipients
           THEN call' = reply(NoneStr, FALSE) /\ UNCHANGED user_recipients
           ELSE /\ call' = reply(NoneStr, TRUE)
                /\ user_recipients' = user_recipients \cup {<<u, recipient_id>>}
    /\ UNCHANGED <<users, recipients, store_faulty, filevars, email_logs, run,
                   runs_started, delivered, templates, run2>>

\* Variant: unlinking also deletes the owner's records.
UnlinkAllDropsLogs(u) ==
    /\ call = NoCall
    /\ UserExists(u)
    /\ call' = [op |-> "unlink_all", pc |-> "done", user_id |-> u, raised |-> NoneStr,
                count |-> Cardinality(UserRecipientIds(u))]
    /\ user_recipients' = {p \in user_recipients : p[1] # u}
    /\ email_logs' = SelectSeq(email_logs, LAMBDA l : l.user_id # u)
    /\ UNCHANGED <<users, recipients, store_faulty, filevars, run, runs_started,
                   delivered, templates, run2>>

\* RecipientService.unlink_all_from_user
UnlinkAll(u) ==
    /\ call = NoCall
    /\ IF ~UserExists(u)
       THEN /\ call' = [op |-> "unlink_all", pc |-> "done", user_id |-> u,
                        raised |-> "UserNotFoundError", count |-> 0]
            /\ UNCHANGED user_recipients
       ELSE /\ call' = [op |-> "unlink_all", pc |-> "done", user_id |-> u,
                        raised |-> NoneStr,
                        count |-> Cardinality(UserRecipientIds(u))]
            /\ user_recipients' = {p \in user_recipients : p[1] # u}
    /\ UNCHANGED <<users, recipients, store_faulty, filevars, email_logs, run,
                   runs_started, delivered, templates, run2>>

\* A row of table recipients is deleted in the store (no endpoint does it;
\* the schema provides for it): its links go with it (ON DELETE CASCADE of
\* user_recipients) and the records that referenced it keep the address and
\* lose the id (ON DELETE SET NULL of email_logs.recipient_id).
DeleteRecipient(recipient_id) ==
    /\ call = NoCall
    /\ recipient_id \in DOMAIN recipients
    /\ recipients' = Restrict(recipients, DOMAIN recipients \ {recipient_id})
    /\ user_recipients' = {p \in user_recipients : p[2] # recipient_id}
    /\ email_logs' = [k \in 1..Len(email_logs) |->
                        IF email_logs[k].recipient_id = recipient_id
                        THEN [email_logs[k] EXCEPT !.recipient_id = None]
                        ELSE email_logs[k]]
    /\ UNCHANGED <<users, store_faulty, filevars, run, runs_started, delivered,
                   templates, run2, call>>

(***************************************************************************)
(* The owner's recipients.  Owner 1 has uploaded the files, holds a valid  *)
(* token and has sent to recipient 1 in an earlier run.  Recipients are    *)
(* created, linked, unlinked, listed and deleted, and records are deleted, *)
(* between the runs; the reply may still be on its way when a run starts.  *)
(***************************************************************************)
InitRecipients ==
    /\ users = {1}
    /\ recipients = (1 :> "a") @@ (2 :> "b")
    /\ user_recipients = {<<1, 1>>, <<1, 2>>}
    /\ email_logs = <<EmailLog(1, 1, "a", "sent")>>
    /\ credentials_files = [u \in UserIds |-> u = 1]
    /\ resume_files = [u \in UserIds |-> u = 1]
    /\ token_files = (1 :> "valid") @@ (2 :> "none")
    /\ run = IdleRun
    /\ runs_started = 0
    /\ delivered = [k \in UserIds \X Addresses |-> IF k = <<1, "a">> THEN 1 ELSE 0]
    /\ templates = [u \in UserIds |-> NoTemplate]
    /\ run2 = IdleRun
    /\ call = NoCall
    /\ store_faulty = FALSE

Quiet == run.pc = "idle"

\* a request that names one existing recipient
SingleRequests == {<<r>> : r \in DOMAIN recipients}

NextRecipients ==
    \/ \E ids \in SingleRequests : StartRun(1, ids, FALSE)
    \/ Validate
    \/ ReadSent
    \/ Authenticate
    \/ Iterate
    \/ Complete
    \/ EndRun
    \/ Quiet /\ \E email \in {"a", "c"} : CreateRecipient(email)
    \/ Quiet /\ \E r \in RecipientIds : LinkToUser(1, r)
    \/ Quiet /\ UnlinkAll(1)
    \/ Quiet /\ \E used \in {"true", "false"} : ListRecipients(1, used)
    \/ Quiet /\ \E r \in RecipientIds : DeleteRecipient(r)
    \/ Quiet /\ \E recipient_id \in RecipientIds :
                   DeleteLogs(1, recipient_id, NoneStr, NoDate, 0, FALSE)
    \/ Quiet /\ DeleteLogs(1, None, NoneStr, NoDate, 0, TRUE)
    \/ Return

SpecRecipients == InitRecipients /\ [][NextRecipients]_vars

(***************************************************************************)
(* Two requests of the same owner served at the same time: owner 1 has     *)
(* uploaded the files and holds a valid token, and both generators run for *)
(* owner 1, their steps interleaved.                                       *)
(***************************************************************************)
NextOverlap ==
    \/ \E ids \in LinkedRequests(1) : StartRun(1, ids, FALSE)
    \/ Validate
    \/ ReadSent
    \/ Authenticate
    \/ Iterate
    \/ Complete
    \/ EndRun
    \/ \E r \in UserRecipientIds(1) : StartRun2(1, <<r>>, FALSE)
    \/ Validate2
    \/ ReadSent2
    \/ Authenticate2
    \/ Iterate2
    \/ Complete2
    \/ EndRun2

SpecOverlap == InitLogs /\ [][NextOverlap]_vars

(***************************************************************************)
(* EmailService.get_stats: the owner's records counted by status.          *)
(***************************************************************************)
CountStatus(logs, user_id, status) ==
    Cardinality({k \in 1..Len(logs) : /\ logs[k].user_id = user_id
                                       /\ logs[k].status = status})

GetStats(logs, user_id) ==
    [total_sent |-> CountStatus(logs, user_id, "sent"),
     total_failed |-> CountStatus(logs, user_id, "failed"),
     total_skipped |-> CountStatus(logs, user_id, "skipped"),
     total_emails |-> CountStatus(logs, user_id, "sent")
                      + CountStatus(logs, user_id, "failed")
                      + CountStatus(logs, user_id, "skipped")]

TypeOK ==
    /\ run.pc \in {"idle", "validating", "reading", "authenticating", "iterating"} \cup Terminal
    /\ runs_started \in 0..MaxRuns
    /\ \A u \in UserIds : token_files[u] \in TokenStates


(***************************************************************************)
(* Vocabulary of the properties.                                           *)
(***************************************************************************)
Active == run.pc # "idle"

\* positions of the events, Transport calls and new log records of recipient r
EventsFor(r) == {k \in 1..Len(run.events) : run.events[k].recipient_id = r}
CallsFor(r) == {k \in 1..Len(run.calls) : run.calls[k].recipient_id = r}
AddedLogs == SubSeq(email_logs, Len(run.log_start) + 1, Len(email_logs))
AddedFor(r) == {k \in 1..Len(AddedLogs) : AddedLogs[k].recipient_id = r}

EventIds == [k \in 1..Len(run.events) |-> run.events[k].recipient_id]
Statuses(s) == [k \in 1..Len(s) |-> s[k].status]
OneError == Len(run.events) = 1 /\ IsErrorEvent(run.events[1])

\* r had a SENT record of the run's owner, by id or by address, when the run began
MatchedAtStart(r) ==
    \E k \in 1..Len(run.log_start) :
        /\ run.log_start[k].user_id = run.user_id
        /\ run.log_start[k].status = "sent"
        /\ \/ run.log_start[k].recipient_id = r
           \/ run.log_start[k].recipient_email = recipients[r]

\* first position of id r in the request
FirstPos(r) == CHOOSE k \in 1..Len(run.recipient_ids) :
                  /\ run.recipient_ids[k] = r
                  /\ \A j \in 1..(k - 1) : run.recipient_ids[j] # r

SentCount(u, r) ==
    Cardinality({k \in 1..Len(email_logs) : /\ email_logs[k].user_id = u
                                            /\ email_logs[k].status = "sent"
                                            /\ email_logs[k].recipient_id = r})

SentCountByEmail(u, e) ==
    Cardinality({k \in 1..Len(email_logs) : /\ email_logs[k].user_id = u
                                            /\ email_logs[k].status = "sent"
                                            /\ email_logs[k].recipient_email = e})

(***************************************************************************)
(* C1 - Idempotency: a requested recipient that had a SENT record of the   *)
(* run's owner (matching its id or its address) when the run began is      *)
(* never handed to the Transport in that run, every event it gets is       *)
(* Skipped, and a run that reaches the end of its loop has given it        *)
(* exactly one Skipped event.                                              *)
(***************************************************************************)
C1_Idempotency ==
    Active =>
      \A r \in Range(run.recipient_ids) \cap DOMAIN recipients :
         MatchedAtStart(r) =>
            /\ CallsFor(r) = {}
            /\ \A k \in EventsFor(r) : run.events[k].status = "skipped"
            /\ run.pc = "completed" => Cardinality(EventsFor(r)) = 1

C1_Witness ==
    /\ run.pc = "completed"
    /\ ~run.dry_run
    /\ \E r \in Range(run.recipient_ids) :
          /\ MatchedAtStart(r)
          /\ \E k \in EventsFor(r) : run.events[k].status = "skipped"
    /\ run.calls # <<>>

(***************************************************************************)
(* C2 - At-most-once accounting: whatever runs have taken place, the log   *)
(* holds at most one SENT record per owner and recipient id, and at most   *)
(* one per owner and address.                                              *)
(***************************************************************************)
C2_AtMostOneSentRecord ==
    \A u \in UserIds :
       /\ \A r \in DOMAIN recipients : SentCount(u, r) <= 1
       /\ \A r \in DOMAIN recipients : SentCountByEmail(u, recipients[r]) <= 1

C2_Witness ==
    /\ runs_started = 2
    /\ run.pc = "completed"
    /\ ~run.dry_run
    /\ \E r \in Range(run.recipient_ids) :
          /\ MatchedAtStart(r)
          /\ EventsFor(r) # {}
          /\ SentCount(run.user_id, r) = 1

(***************************************************************************)
(* C3 - At most one delivery: the Transport send returns success at most   *)
(* once per owner and recipient address, over all runs, also when the      *)
(* commit of the SENT record raises.                                       *)
(***************************************************************************)
C3_AtMostOneDelivery ==
    \A key \in DOMAIN delivered : delivered[key] <= 1

(***************************************************************************)
(* C4 - Event ordering: the events of a completed run appear in the order  *)
(* in which their recipient ids (first) appear in the request list.        *)
(***************************************************************************)
C4_EventsInRequestOrder ==
    run.pc = "completed" =>
      \A j, k \in 1..Len(run.events) :
         j < k => FirstPos(run.events[j].recipient_id) < FirstPos(run.events[k].recipient_id)

C6_DryRunPurity ==
    (Active /\ run.dry_run) =>
       /\ email_logs = run.log_start
       /\ run.calls = <<>>

C6_Witness ==
    /\ run.pc = "completed"
    /\ run.dry_run
    /\ run.log_start # <<>>
    /\ \E k \in 1..Len(run.events) : run.events[k].status = "failed"
    /\ \E k \in 1..Len(run.events) : run.events[k].status = "dry_run"

(***************************************************************************)
(* C7 - Unlinked recipient rejection: a run of an existing owner whose     *)
(* request names an id that is not linked to the owner ends, once          *)
(* validated, aborted with exactly one error object, without a call of     *)
(* authenticate or of the Transport and without a new log record.          *)
(***************************************************************************)
C7_UnlinkedRejected ==
    (/\ run.pc \notin {"idle", "validating"}
     /\ UserExists(run.user_id)
     /\ Range(run.recipient_ids) \ UserRecipientIds(run.user_id) # {}) =>
       /\ run.pc = "aborted"
       /\ OneError
       /\ run.auth = <<>>
       /\ run.calls = <<>>
       /\ email_logs = run.log_start

C7_Witness ==
    /\ run.pc = "aborted"
    /\ ~run.dry_run
    /\ credentials_files[run.user_id] /\ resume_files[run.user_id]
    /\ token_files[run.user_id] = "valid"
    /\ Range(run.recipient_ids) \cap UserRecipientIds(run.user_id) # {}
    /\ Range(run.recipient_ids) \ UserRecipientIds(run.user_id) # {}
    /\ OneError

(***************************************************************************)
(* C8 - Authentication failure aborts the run: once authenticate has       *)
(* failed, the run is aborted, its stream is exactly one error object, the *)
(* Transport was not called and the log is the log the run found.          *)
(***************************************************************************)
C8_AuthFailureAborts ==
    (\E k \in 1..Len(run.auth) : run.auth[k] # "") =>
       /\ run.pc = "aborted"
       /\ OneError
       /\ run.calls = <<>>
       /\ email_logs = run.log_start

C8_Witness ==
    /\ run.pc = "aborted"
    /\ run.auth = <<"refresh_failed">>
    /\ Len(run.recipient_ids) = 2
    /\ OneError

(***************************************************************************)
(* C9 - Terminal marker: a run never ends through an exception; it ends    *)
(* completed with one event per resolved recipient, or aborted with a      *)
(* single error object.                                                    *)
(***************************************************************************)
C9_TerminalMarker ==
    run.pc \in Terminal =>
       \/ /\ run.pc = "completed"
          /\ EventIds = run.recipients
       \/ /\ run.pc = "aborted"
          /\ OneError

(***************************************************************************)
(* C10, as stated: a completed run has emitted as many events as the       *)
(* request list has entries.                                               *)
(***************************************************************************)
C10_OneEventPerEntry ==
    run.pc = "completed" => Len(run.events) = Len(run.recipient_ids)

(***************************************************************************)
(* C10, amended: a completed run has emitted exactly one event (Sent,      *)
(* Failed, Skipped or Preview) for each distinct recipient id of the       *)
(* request list, and nothing else.                                         *)
(***************************************************************************)
C10_OneEventPerRecipient ==
    run.pc = "completed" =>
       /\ Len(run.events) = Cardinality(Range(run.recipient_ids))
       /\ \A r \in Range(run.recipient_ids) : Cardinality(EventsFor(r)) = 1
       /\ \A k \in 1..Len(run.events) :
             run.events[k].status \in {"sent", "failed", "skipped", "dry_run"}

C10_Witness ==
    /\ run.pc = "completed"
    /\ Len(run.recipient_ids) = 2
    /\ Cardinality(Range(run.recipient_ids)) = 1
    /\ Len(run.events) = 1

(***************************************************************************)
(* C11 - Encoder errors are run-fatal: once building a message of a real   *)
(* run has failed because the attachment could not be read, the run is     *)
(* aborted with a single error object and has written no FAILED record.    *)
(***************************************************************************)
AttachmentErrors ==
    {k \in 1..Len(run.build_errors) : run.build_errors[k].error = "attachment"}

C11_EncoderErrorAborts ==
    (~run.dry_run /\ AttachmentErrors # {}) =>
       /\ run.pc = "aborted"
       /\ OneError
       /\ \A k \in 1..Len(AddedLogs) : AddedLogs[k].status # "failed"

(***************************************************************************)
(* C12 - Template validation errors abort before authentication: a run of  *)
(* an existing owner who has no stored template, or whose template uses a  *)
(* placeholder the Encoder cannot substitute, ends, once validated,        *)
(* aborted with exactly one error object, without a call of authenticate   *)
(* or of the Transport and without a new log record.                       *)
(***************************************************************************)
TemplateInvalid(user_id) ==
    \/ ~templates[user_id].exists
    \/ templates[user_id].content \ FormatKeys # {}

C12_TemplateErrorsRejected ==
    (/\ run.pc \notin {"idle", "validating"}
     /\ UserExists(run.user_id)
     /\ TemplateInvalid(run.user_id)) =>
       /\ run.pc = "aborted"
       /\ OneError
       /\ run.auth = <<>>
       /\ run.calls = <<>>
       /\ email_logs = run.log_start

(***************************************************************************)
(* C13 - authenticate outcomes by credential state.  For the token file    *)
(* that authenticate found: absent, it fails with NoToken and the file is  *)
(* still absent; valid, it returns a handle and the file is unchanged;     *)
(* expired with a refresh token, it either returns a handle and the file   *)
(* holds the refreshed token, or the refresh failed and the file is        *)
(* unchanged; expired without a refresh token, it fails as Unrecoverable   *)
(* and the file is unchanged.  No other outcome exists (in particular no   *)
(* interactive authorization that would create a token).                   *)
(***************************************************************************)
C13_AuthenticateOutcomes ==
    (run.auth # <<>>) =>
       LET seen == run.token_seen
           err == run.auth[1]
           now == token_files[run.user_id]
       IN  /\ Len(run.auth) = 1
           /\ run.service <=> err = ""
           /\ seen = "none" => err = "no_token" /\ now = "none"
           /\ seen \in {"valid", "valid_norefresh"} => err = "" /\ now = seen
           /\ seen = "expired" => \/ (err = "" /\ now = "valid")
                                   \/ (err = "refresh_failed" /\ now = "expired")
           /\ seen = "expired_norefresh" => err = "unrecoverable" /\ now = seen
           /\ seen \in {"none", "valid", "valid_norefresh", "expired", "expired_norefresh"}

C13_Witness ==
    /\ run.pc = "completed"
    /\ run.token_seen = "expired"
    /\ run.auth = <<"">>
    /\ token_files[run.user_id] = "valid"
    /\ run.calls # <<>>

(***************************************************************************)
(* C14 - checkConnection never throws: every call ends with a status       *)
(* record.  connected is true only if has_credentials and has_token are    *)
(* true and the profile probe succeeded, and then error is None; otherwise *)
(* connected is false, email is None and error is set.                     *)
(***************************************************************************)
C14_CheckConnectionStatus ==
    (call.op = "check" /\ call.pc = "done") =>
       /\ ~call.raised
       /\ call.connected =>
             /\ call.has_credentials /\ call.has_token
             /\ call.probe = "ok"
             /\ call.error = NoneStr
       /\ ~call.connected =>
             /\ call.email = NoneStr
             /\ call.error # NoneStr
       /\ (call.has_credentials /\ call.has_token /\ call.probe = "ok") => call.connected

C14_Witness ==
    /\ call.op = "check"
    /\ call.pc = "done"
    /\ ~call.connected
    /\ call.has_credentials /\ call.has_token
    /\ call.probe = "failed"
    /\ run.pc = "iterating"

NonBlank(s) == {k \in 1..Len(s) : s[k] # " "}

\* s without its leading and trailing blanks
Trimmed(s) ==
    IF NonBlank(s) = {} THEN <<>>
    ELSE SubSeq(s, CHOOSE i \in NonBlank(s) : \A j \in NonBlank(s) : i <= j,
                   CHOOSE i \in NonBlank(s) : \A j \in NonBlank(s) : j <= i)

IsUrl(s) == s # <<>> /\ s[1] \in Schemes

\* positions of s where a query field named code begins: after the first
\* "?", at the start of the query or right after an "&"
CodeFieldPositions(s) ==
    {k \in 2..Len(s) :
        /\ s[k] \in CodeFields
        /\ \E q \in 1..(k - 1) : s[q] = "?"
        /\ \/ s[k - 1] = "&"
           \/ (s[k - 1] = "?" /\ \A j \in 1..(k - 2) : s[j] # "?")}

\* the value of the field that begins at position k: up to the next "&"
ValueAt(s, k) ==
    LET stops == {e \in (k + 1)..Len(s) : s[e] = "&"}
        last == IF stops = {} THEN Len(s)
                ELSE (CHOOSE e \in stops : \A f \in stops : e <= f) - 1
    IN  <<FieldValue(s[k])>> \o SubSeq(s, k + 1, last)

FirstCodeValue(s) ==
    ValueAt(s, CHOOSE k \in CodeFieldPositions(s) : \A j \in CodeFieldPositions(s) : k <= j)

\* The four cases of the claim for a completed call that reached the
\* extraction, the shape being that of s.
InputHandling(s) ==
    /\ (s # <<>> /\ ~IsUrl(s)) =>
          /\ call.exchanged
          /\ call.code = Trimmed(call.input)
    /\ (IsUrl(s) /\ CodeFieldPositions(s) # {}) =>
          /\ call.exchanged
          /\ call.code = FirstCodeValue(s)
    /\ (IsUrl(s) /\ CodeFieldPositions(s) = {}) =>
          /\ ~call.exchanged /\ ~call.ok
          /\ call.error = "URL does not contain an authorization code"
    /\ s = <<>> =>
          /\ ~call.exchanged /\ ~call.ok
          /\ call.error = "No input provided"

(***************************************************************************)
(* C16, as stated: the cases are those of the input as pasted.  A          *)
(* non-empty input that does not start with http:// or https:// is used,   *)
(* trimmed, as the code; a URL yields the first value of its code          *)
(* parameter; a URL without one and an empty input fail without an         *)
(* exchange.                                                               *)
(***************************************************************************)
C16_InputHandlingAsPasted ==
    (call.op = "complete_auth" /\ call.has_credentials) => InputHandling(call.input)

(***************************************************************************)
(* C16, amended: the cases are those of the input after trimming.  An      *)
(* input that is empty once trimmed fails; a trimmed input that does not   *)
(* start with http:// or https:// is the code; a trimmed input that is a   *)
(* URL yields the first value of its code parameter or, without one,       *)
(* fails; no failure attempts the exchange.                                *)
(***************************************************************************)
C16_InputHandlingTrimmed ==
    (call.op = "complete_auth" /\ call.has_credentials) =>
        InputHandling(Trimmed(call.input))

C16_Witness ==
    /\ call.op = "complete_auth"
    /\ call.has_credentials
    /\ call.input = <<" ", "http://", "?", "code=b", "&">>
    /\ call.code = <<"b">>
    /\ call.ok

(***************************************************************************)
(* C17 - Token persistence only on success: a completed authorization      *)
(* leaves the token file as it found it unless the client secret was       *)
(* present, a code was extracted and the exchange succeeded, and then the  *)
(* file holds the new token; building the authorization URL never changes  *)
(* it.                                                                     *)
(***************************************************************************)
C17_TokenOnlyOnSuccess ==
    /\ (call.op = "complete_auth") =>
          LET now == token_files[call.user_id]
          IN  /\ call.ok <=> (call.has_credentials /\ call.exchanged
                               /\ call.error = NoneStr)
              /\ ~call.ok => now = call.token_before
              /\ call.ok => now \in {"valid", "valid_norefresh"}
              /\ (~call.has_credentials
                   \/ extract_auth_code(call.input).error # NoneStr) => ~call.exchanged
    /\ (call.op = "auth_url") => token_files[call.user_id] = call.token_before

C17_Witness ==
    /\ call.op = "complete_auth"
    /\ call.ok
    /\ call.token_before = "valid_norefresh"
    /\ token_files[call.user_id] = "valid"
    /\ Len(call.input) = 1

(***************************************************************************)
(* Vocabulary of C18: what one owner can see of the shared state.          *)
(***************************************************************************)
\* the records of owner u, in order
Own(logs, u) == SelectSeq(logs, LAMBDA l : l.user_id = u)

OwnDelivered(dlv, u) == [e \in {"a", "b", "c"} |-> dlv[<<u, e>>]]

\* A step of the run whose local state goes from rn to rn2 is a step the
\* same run takes when the log holds the records of its owner only.
StepAsAlone(rn, rn2) ==
    /\ (rn.pc = "reading" /\ rn2 # rn) =>
          /\ rn2.sent_recipient_ids = SentRecipientIds(Own(email_logs, rn.user_id), rn.user_id)
          /\ rn2.sent_emails = SentEmails(Own(email_logs, rn.user_id), rn.user_id)
    /\ (rn.pc = "iterating" /\ rn2 # rn /\ rn.i <= Len(rn.recipients)) =>
          \E res \in IterationResults(rn, Own(email_logs, rn.user_id), delivered,
                                       store_faulty) :
             /\ rn2 = res.run
             /\ Own(email_logs', rn.user_id) = res.logs
             /\ OwnDelivered(delivered', rn.user_id) = OwnDelivered(res.delivered, rn.user_id)

\* A step that changes the local state of another run leaves the run rn,
\* the records, the deliveries and the token of its owner as they were.
Untouched(rn, rn2, other, other2) ==
    (rn.pc # "idle" /\ other2 # other) =>
       /\ rn2 = rn
       /\ Own(email_logs', rn.user_id) = Own(email_logs, rn.user_id)
       /\ OwnDelivered(delivered', rn.user_id) = OwnDelivered(delivered, rn.user_id)
       /\ token_files'[rn.user_id] = token_files[rn.user_id]

(***************************************************************************)
(* C18 - Runs of different account owners are independent: in every        *)
(* interleaving of a run of owner 1 and a run of owner 2, each step of a   *)
(* run is the step it takes alone (it reads and writes the records of its  *)
(* own owner only), and no step of one run changes the local state of the  *)
(* other or its owner's records, deliveries or token.  So each run emits   *)
(* the events and adds the records of a run executed alone.                *)
(***************************************************************************)
C18_OwnersIndependent ==
    [][/\ StepAsAlone(run, run')
       /\ StepAsAlone(run2, run2')
       /\ Untouched(run, run', run2, run2')
       /\ Untouched(run2, run2', run, run')]_vars

\* both owners have sent to address "b" in interleaved runs: the record of
\* owner 2 lies between two records of owner 1
C18_Witness ==
    /\ run.pc = "completed" /\ run2.pc = "completed"
    /\ run.user_id = 1 /\ run2.user_id = 2
    /\ Statuses(run.events) = <<"sent", "sent">>
    /\ Statuses(run2.events) = <<"sent">>
    /\ email_logs = <<EmailLog(1, 1, "a", "sent"), EmailLog(2, 2, "b", "sent"),
                      EmailLog(1, 2, "b", "sent")>>

(***************************************************************************)
(* C19 - checkConnection does not interrupt a dispatch run: a step of a    *)
(* status check of the owner, taken at any point of a run, leaves the      *)
(* run's local state and the log as they were, and when the run calls      *)
(* authenticate it finds a token file in one of the states a credential    *)
(* has (absent, valid or expired), so that its events are those of the run *)
(* without the check.                                                      *)
(***************************************************************************)
C19_CheckDoesNotInterrupt ==
    [][/\ (run.pc # "idle" /\ call' # call) =>
            /\ run' = run
            /\ email_logs' = email_logs
       /\ (run.pc = "authenticating" /\ run'.pc # run.pc /\ ~run.dry_run) =>
            token_files[run.user_id] # "truncated"]_vars

(***************************************************************************)
(* Vocabulary of C20.                                                      *)
(***************************************************************************)
IsPrefix(p, q) == Len(p) <= Len(q) /\ SubSeq(q, 1, Len(p)) = p

\* YYYY-MM-DD: four, two and two digits that name a month and a day
IsIsoDate(text) ==
    /\ Len(text) = 3
    /\ text[1] \in {"2024"}
    /\ text[2] \in {"01"}
    /\ text[3] \in {"05"}

\* year-month-day numbers: a four-digit year, a month and a day of one or
\* two digits
ReadsAsDate(text) ==
    /\ Len(text) = 3
    /\ text[1] \in {"2024"}
    /\ text[2] \in {"01", "1"}
    /\ text[3] \in {"05", "5"}

DeleteRejected ==
    /\ call.raised # NoneStr
    /\ IsPrefix(call.logs_before, email_logs)

C21_Base64RoundTrip ==
    (call.op = "create_message" /\ call.raised = NoneStr) =>
        /\ call.text_part.cte = "base64"
        /\ get_content(call.text_part) = call.body

(***************************************************************************)
(* Vocabulary of C22: the template with its placeholders replaced.         *)
(***************************************************************************)
RECURSIVE Substituted(_, _, _)
Substituted(template, salutation, company) ==
    IF template = <<>> THEN <<>>
    ELSE LET t == Head(template)
         IN  (CASE t = "{salutation}" -> salutation
                [] t \in {"{company}", "{company_name}"} -> company
                [] t = "W" -> LongWord
                [] OTHER -> <<t>>)
                \o Substituted(Tail(template), salutation, company)

(***************************************************************************)
(* C22 - the body returned by the encoder is the template with every       *)
(* {salutation} replaced by the salutation and every {company} and         *)
(* {company_name} replaced by the company, all other text unchanged        *)
(* (templates without an escaped brace).                                   *)
(***************************************************************************)
C22_PlaceholdersSubstituted ==
    (call.op = "create_message"
        /\ \A k \in 1..Len(call.template) : call.template[k] # "{{") =>
        /\ call.raised = NoneStr
        /\ call.body = Substituted(call.template, call.salutation, call.company)

(***************************************************************************)
(* Vocabulary of C23 and C24: the records the run has added to the log,    *)
(* and the points where the consumer holds every event produced so far.    *)
(***************************************************************************)
RunRecords == SubSeq(email_logs, Len(run.log_start) + 1, Len(email_logs))

\* the generator is suspended at a yield, has returned or has been closed
Suspended == run.pc # "idle" /\ Pulls = Len(run.events)

(***************************************************************************)
(* C23 - whenever the stream is suspended waiting for the caller, every    *)
(* Transport send the run has invoked has its record (SENT or FAILED) in   *)
(* the log, and every Sent event emitted has its SENT record.              *)
(***************************************************************************)
C23_SendLoggedBeforeReported ==
    Suspended =>
        /\ \A k \in 1..Len(run.calls) :
              \E j \in 1..Len(RunRecords) :
                  /\ RunRecords[j].user_id = run.user_id
                  /\ RunRecords[j].recipient_id = run.calls[k].recipient_id
                  /\ RunRecords[j].status \in {"sent", "failed"}
        /\ \A k \in 1..Len(run.events) :
              (~IsErrorEvent(run.events[k]) /\ run.events[k].status = "sent") =>
                  \E j \in 1..Len(RunRecords) :
                      RunRecords[j] = EmailLog(run.user_id, run.events[k].recipient_id,
                                               run.events[k].email, "sent")

\* cancelled after the second event of a run whose first send was reported
\* Sent and whose second send failed, both logged
C23_Witness ==
    /\ run.pc = "closed"
    /\ Len(run.calls) = 2
    /\ run.calls[1].ok /\ ~run.calls[2].ok
    /\ Len(run.events) = 2
    /\ Len(RunRecords) = 2
    /\ RunRecords[1].status = "sent" /\ RunRecords[2].status = "failed"

(***************************************************************************)
(* C24 - the generator does no work for a recipient (no message build, no  *)
(* Transport send, no log write) unless the consumer has asked for an      *)
(* event beyond those produced; the events produced never outnumber the    *)
(* consumer's requests; and once the consumer has stopped after event k no *)
(* later recipient is sent to.                                             *)
(***************************************************************************)
C24_LazyProduction ==
    [][/\ (/\ run.pc = "iterating"
           /\ \/ run'.calls # run.calls
              \/ run'.build_errors # run.build_errors
              \/ email_logs' # email_logs
              \/ Len(run'.events) > Len(run.events))
            => Pulls = Len(run.events) + 1
       /\ Len(run'.events) <= Pulls'
       /\ run.pc = "closed" =>
            /\ Len(run'.calls) <= Len(run.calls)
            /\ email_logs' = email_logs
            /\ delivered' = delivered]_vars

\* the caller stopped after the first event of a real run for two
\* recipients: one send was made, the second recipient was not reached
C24_Witness ==
    /\ run.pc = "closed"
    /\ ~run.dry_run
    /\ Len(run.recipients) = 2
    /\ Len(run.events) = 1
    /\ Len(run.calls) = 1
    /\ Pulls = 1

C26_AuthenticateOnce ==
    [][/\ Len(run'.auth) <= 1
       /\ run'.dry_run => run'.auth = <<>>
       /\ (run'.auth # run.auth /\ run'.auth # <<>>) =>
            /\ run.pc = "authenticating"
            /\ run.calls = <<>>
            /\ run.events = <<>>
            /\ UserExists(run.user_id)
            /\ credentials_files[run.user_id]
            /\ resume_files[run.user_id]
            /\ InvalidIds(run.user_id, run.recipient_ids) = {}
            /\ run.recipients # <<>>
       /\ run'.calls # <<>> => run'.auth = <<"">>]_vars

\* a real run that has sent to two recipients after its one authentication
C26_Witness ==
    /\ run.pc = "completed"
    /\ ~run.dry_run
    /\ Len(run.calls) = 2
    /\ run.auth = <<"">>

(***************************************************************************)
(* C27 - within one run the Transport send is invoked at most once per     *)
(* recipient, whether that send succeeds or fails.                         *)
(***************************************************************************)
C27_NoRetryWithinRun ==
    \A k1, k2 \in 1..Len(run.calls) :
        run.calls[k1].recipient_id = run.calls[k2].recipient_id => k1 = k2

\* a finished run whose request named recipient 1 twice: the one send
\* failed and was not repeated
C27_Witness ==
    /\ run.pc = "completed"
    /\ run.recipient_ids = <<1, 1>>
    /\ Len(run.calls) = 1
    /\ ~run.calls[1].ok
    /\ Len(run.events) = 1

(***************************************************************************)
(* C28 - a recipient with no SENT record of the owner matching its id or   *)
(* its address is never Skipped, FAILED records notwithstanding, and a     *)
(* real run that has built its message invokes the Transport send for it.  *)
(***************************************************************************)
C28_FailedStayEligible ==
    [][(run.pc = "iterating" /\ run.i <= Len(run.recipients) /\ run' # run) =>
          LET r == run.recipients[run.i]
              sent == {l \in Range(email_logs) :
                          /\ l.user_id = run.user_id
                          /\ l.status = "sent"
                          /\ (l.recipient_id = r \/ l.recipient_email = recipients[r])}
          IN  sent = {} =>
                /\ Len(run'.events) = Len(run.events) + 1
                /\ run'.events[Len(run'.events)].recipient_id = r
                /\ run'.events[Len(run'.events)].status # "skipped"
                /\ (~run.dry_run /\ run'.build_errors = run.build_errors) =>
                      /\ Len(run'.calls) = Len(run.calls) + 1
                      /\ run'.calls[Len(run'.calls)].recipient_id = r]_vars

\* an earlier run left a FAILED record for recipient 1; this run has sent
\* to recipient 1
C28_Witness ==
    /\ run.pc = "completed"
    /\ run.log_start = <<EmailLog(1, 1, "a", "failed")>>
    /\ Len(run.calls) = 1
    /\ run.calls[1].recipient_id = 1
    /\ run.calls[1].ok

(***************************************************************************)
(* C29 - when authenticate finds an expired token with a refresh token and *)
(* the refresh call fails, the refresh has been attempted once, the error  *)
(* reaches the caller, and the stored token is the one that was stored     *)
(* before the call.                                                        *)
(***************************************************************************)
C29_RefreshFailurePropagated ==
    [][(run.pc = "authenticating" /\ run'.auth = <<"refresh_failed">>) =>
          /\ run'.refreshes = 1
          /\ run'.token_seen = "expired"
          /\ token_files' = token_files
          /\ token_files'[run.user_id] = "expired"
          /\ run'.pc = "aborted"
          /\ run'.events = <<ErrorEvent("Gmail authentication failed")>>]_vars

\* a run aborted by a failed refresh, the expired token still stored
C29_Witness ==
    /\ run.pc = "aborted"
    /\ run.auth = <<"refresh_failed">>
    /\ run.refreshes = 1
    /\ token_files[run.user_id] = "expired"

(***************************************************************************)
(* C30 - with a caller that keeps pulling, every run eventually ends in    *)
(* Completed or Aborted.                                                   *)
(***************************************************************************)
C30_RunsEnd ==
    (run.pc = "validating") ~> (run.pc \in {"completed", "aborted"})

(***************************************************************************)
(* C31 - a dry run is not rejected because the owner's provider            *)
(* credentials are absent.                                                 *)
(***************************************************************************)
C31_DryRunNeedsNoCredentials ==
    (run.dry_run /\ run.pc = "aborted") =>
        run.events # <<ErrorEvent("Gmail credentials not uploaded")>>

(***************************************************************************)
(* C32 - purge is the only way back: while the log holds a SENT record of  *)
(* the owner that matches a recipient's id or its address, a run that      *)
(* comes to that recipient yields Skipped, calls no Transport send and     *)
(* adds no record; so after a deletion that leaves one such record (a      *)
(* delete_logs filtered by recipient_id that leaves a SENT record with a   *)
(* null recipient_id and the same address) the recipient is still Skipped. *)
(***************************************************************************)
SentMatches(logs, user_id, r) ==
    {l \in Range(logs) : /\ l.user_id = user_id
                         /\ l.status = "sent"
                         /\ (l.recipient_id = r \/ l.recipient_email = recipients[r])}

C32_PurgeOnlyWayBack ==
    [][(run.pc = "iterating" /\ run.i <= Len(run.recipients) /\ run' # run) =>
          LET r == run.recipients[run.i]
          IN  SentMatches(email_logs, run.user_id, r) # {} =>
                /\ run'.events = Append(run.events,
                                        RecipientEvent(r, recipients[r], "skipped"))
                /\ run'.calls = run.calls
                /\ email_logs' = email_logs]_vars

\* recipient 1 was deleted in the store and its address came back as
\* recipient 3; the owner deleted the records of recipient 3, which left
\* the SENT record of the address, and the run that followed skipped 3
C32_Witness ==
    /\ run.pc = "completed"
    /\ run.recipient_ids = <<3>>
    /\ call.op = "delete_logs" /\ call.recipient_id = 3 /\ call.raised = NoneStr
    /\ email_logs = <<EmailLog(1, None, "a", "sent")>>
    /\ run.events = <<RecipientEvent(3, "a", "skipped")>>
    /\ run.calls = <<>>

(***************************************************************************)
(* C33 - idempotency is scoped per account owner: a run that comes to a    *)
(* recipient for which its own owner has no SENT record (by id or by       *)
(* address) does not skip it, whatever SENT records another owner has for  *)
(* it, and a real run that has built its message calls the Transport send  *)
(* for it.                                                                 *)
(***************************************************************************)
NotSkipped(rn, rn_next, logs) ==
    (rn.pc = "iterating" /\ rn.i <= Len(rn.recipients) /\ rn_next # rn) =>
        LET r == rn.recipients[rn.i]
        IN  SentMatches(logs, rn.user_id, r) = {} =>
              /\ Len(rn_next.events) = Len(rn.events) + 1
              /\ rn_next.events[Len(rn_next.events)].recipient_id = r
              /\ rn_next.events[Len(rn_next.events)].status # "skipped"
              /\ (~rn.dry_run /\ rn_next.build_errors = rn.build_errors) =>
                    /\ Len(rn_next.calls) = Len(rn.calls) + 1
                    /\ rn_next.calls[Len(rn_next.calls)].recipient_id = r

C33_ScopedPerOwner ==
    [][NotSkipped(run, run', email_logs) /\ NotSkipped(run2, run2', email_logs)]_vars

\* owner 1 had a SENT record for recipient 2 when the run of owner 2 began,
\* and that run has sent to recipient 2
C33_Witness ==
    /\ run2.pc = "completed"
    /\ run2.user_id = 2
    /\ ~run2.dry_run
    /\ EmailLog(1, 2, "b", "sent") \in Range(run2.log_start)
    /\ Statuses(run2.events) = <<"sent">>
    /\ Len(run2.calls) = 1 /\ run2.calls[1].recipient_id = 2 /\ run2.calls[1].ok

(***************************************************************************)
(* C34 - the already-sent keys are a per-run snapshot: within a run they   *)
(* are set in one step only, the read that follows validation and precedes *)
(* authentication and the first recipient, which takes them from the       *)
(* owner's SENT records of that moment; whether a recipient is Skipped is  *)
(* decided by these keys alone, whatever SENT records this run or an       *)
(* overlapping run of the same owner has appended since.                   *)
(***************************************************************************)
SentKeys(rn) == <<rn.sent_recipient_ids, rn.sent_emails>>

Snapshot(rn, rn_next, logs) ==
    /\ (rn.pc # "idle" /\ rn_next.pc # "idle" /\ SentKeys(rn_next) # SentKeys(rn)) =>
          /\ rn.pc = "reading" /\ rn_next.pc = "authenticating"
          /\ rn.auth = <<>> /\ rn.events = <<>> /\ rn.calls = <<>>
    /\ (rn.pc = "reading" /\ rn_next # rn) =>
          SentKeys(rn_next) = <<SentRecipientIds(logs, rn.user_id),
                                SentEmails(logs, rn.user_id)>>
    /\ (rn.pc = "iterating" /\ rn.i <= Len(rn.recipients) /\ rn_next # rn) =>
          LET r == rn.recipients[rn.i]
          IN  /\ Len(rn_next.events) = Len(rn.events) + 1
              /\ rn_next.events[Len(rn_next.events)].status = "skipped"
                    <=> (r \in rn.sent_recipient_ids \/ recipients[r] \in rn.sent_emails)

C34_SentKeysSnapshot ==
    [][Snapshot(run, run', email_logs) /\ Snapshot(run2, run2', email_logs)]_vars

\* the overlapping run appended its SENT record for recipient 1 after this
\* run had read the keys, and this run has sent to recipient 1 all the same
C34_Witness ==
    /\ run.pc = "completed" /\ run2.pc = "completed"
    /\ run.user_id = 1 /\ run2.user_id = 1
    /\ run.sent_emails = {} /\ run.sent_recipient_ids = {}
    /\ email_logs = <<EmailLog(1, 1, "a", "sent"), EmailLog(1, 1, "a", "sent")>>
    /\ Statuses(run.events) = <<"sent">>
    /\ Statuses(run2.events) = <<"sent">>

(***************************************************************************)
(* C35 - skips are never logged: a step of a dispatch run that emits a     *)
(* Skipped event leaves the log as it was, every record a step adds has    *)
(* status SENT or FAILED, and no step changes the skipped count of an      *)
(* owner's statistics; the log never holds a SKIPPED record.               *)
(***************************************************************************)
C35_SkipsNotLogged ==
    [][/\ (Len(run'.events) = Len(run.events) + 1
           /\ run'.events[Len(run'.events)].status = "skipped") =>
              email_logs' = email_logs
       /\ Len(email_logs') >= Len(email_logs)
       /\ SubSeq(email_logs', 1, Len(email_logs)) = email_logs
       /\ \A k \in Len(email_logs) + 1..Len(email_logs') :
              email_logs'[k].status \in {"sent", "failed"}
       /\ \A u \in UserIds :
              /\ GetStats(email_logs', u).total_skipped
                    = GetStats(email_logs, u).total_skipped
              /\ GetStats(email_logs', u).total_skipped = 0]_vars

\* a run that has skipped recipient 1 and sent to recipient 2: the log
\* holds two SENT records and the statistics count no skip
C35_Witness ==
    /\ run.pc = "completed"
    /\ ~run.dry_run
    /\ Statuses(run.events) = <<"skipped", "sent">>
    /\ email_logs = <<EmailLog(1, 1, "a", "sent"), EmailLog(1, 2, "b", "sent")>>
    /\ GetStats(email_logs, 1) =
          [total_sent |-> 2, total_failed |-> 0, total_skipped |-> 0, total_emails |-> 2]

(***************************************************************************)
(* C36 - an empty request is an error: for an owner whose credentials and  *)
(* attachment are present, the validation of a request with an empty       *)
(* recipient id list emits the single error object "No valid recipients    *)
(* found" and ends the run, without a call of authenticate, a Transport    *)
(* send or a record; the run takes no further step.                        *)
(***************************************************************************)
C36_EmptyRequestIsError ==
    [][/\ (/\ run.pc = "validating" /\ run' # run
            /\ run.recipient_ids = <<>>
            /\ UserExists(run.user_id)
            /\ credentials_files[run.user_id] /\ resume_files[run.user_id]) =>
              /\ run'.pc = "aborted"
              /\ run'.events = <<ErrorEvent("No valid recipients found")>>
              /\ run'.auth = <<>> /\ run'.calls = <<>>
              /\ email_logs' = email_logs /\ token_files' = token_files
       /\ (run.pc = "aborted" /\ run' # run) => run' = IdleRun]_vars

\* the run of an empty request, aborted with its one error
C36_Witness ==
    /\ run.pc = "aborted"
    /\ run.recipient_ids = <<>>
    /\ credentials_files[run.user_id] /\ resume_files[run.user_id]
    /\ run.events = <<ErrorEvent("No valid recipients found")>>
    /\ run.auth = <<>>

(***************************************************************************)
(* C37 - the 'unused' listing agrees with the dispatch skip rule: in a     *)
(* real run of the owner that follows a listing at once, a recipient the   *)
(* listing returned with used = false is not Skipped and one it returned   *)
(* with used = true is Skipped; the two listings are disjoint and together *)
(* hold every recipient linked to the owner.                               *)
(***************************************************************************)
C37_UnusedListingAgrees ==
    /\ \A u \in users :
          /\ GetByUser(email_logs, u, "true") \cap GetByUser(email_logs, u, "false") = {}
          /\ GetByUser(email_logs, u, "true") \cup GetByUser(email_logs, u, "false")
                = UserRecipientIds(u)
    /\ (/\ call.op = "get_by_user" /\ call.raised = NoneStr
        /\ run.pc # "idle" /\ ~run.dry_run /\ run.user_id = call.user_id
        /\ run.log_start = call.logs_read) =>
          \A k \in 1..Len(run.events) :
             run.events[k].recipient_id \in call.result =>
                (run.events[k].status = "skipped" <=> call.used = "true")

(***************************************************************************)
(* C38 - unlinking does not reset idempotency: linking and unlinking never *)
(* change the log; a run that names a recipient not linked to its owner is *)
(* aborted as unlinked without a Transport call; and a run that comes to a *)
(* linked recipient with a SENT record of the owner yields Skipped without *)
(* a Transport call, also when the link was removed by unlink-all and put  *)
(* back in between.                                                        *)
(***************************************************************************)
C38_UnlinkKeepsIdempotency ==
    [][/\ (call'.op \in {"unlink_all", "link_to_user"} /\ call' # call) =>
              email_logs' = email_logs
       /\ (/\ run.pc = "validating" /\ run' # run
            /\ credentials_files[run.user_id] /\ resume_files[run.user_id]
            /\ ~(Range(run.recipient_ids) \subseteq UserRecipientIds(run.user_id))) =>
              /\ run'.pc = "aborted"
              /\ run'.events = <<ErrorEvent("Recipients not linked to this user")>>
              /\ run'.calls = <<>>
       /\ (run.pc = "iterating" /\ run.i <= Len(run.recipients) /\ run' # run) =>
              LET r == run.recipients[run.i]
              IN  (\E l \in Range(email_logs) : /\ l.user_id = run.user_id
                                                /\ l.status = "sent"
                                                /\ l.recipient_id = r) =>
                    /\ run'.events[Len(run'.events)] =
                          RecipientEvent(r, recipients[r], "skipped")
                    /\ run'.calls = run.calls]_vars

\* recipient 1, sent to before, was unlinked and has just been linked
\* again; the run that followed skipped it and the log is as it was
C38_Witness ==
    /\ call.op = "link_to_user" /\ call.recipient_id = 1 /\ call.linked
    /\ run.pc = "completed"
    /\ run.recipient_ids = <<1>>
    /\ run.events = <<RecipientEvent(1, "a", "skipped")>>
    /\ run.calls = <<>>
    /\ email_logs = <<EmailLog(1, 1, "a", "sent")>>
    /\ runs_started = 2

====
